---- MODULE Spec2Model ----
(***************************************************************************)
(* Conductor / breaker selection engine of CalculadoraNEC.                 *)
(*                                                                         *)
(* The program is a collection of pure functions over constant tables.     *)
(* The state of the model is the most recent call: the operation invoked   *)
(* (op), its arguments (arg) and what it returned or raised (ret); the     *)
(* table objects of the modules and classes (tables); and, for a session   *)
(* of several calls, the objects the calls created (heap), the calls       *)
(* completed (calls) and the calls in progress (frames).                   *)
(*                                                                         *)
(* Numbers.  Python floats are modelled in fixed point:                    *)
(*   currents      : AmpUnits units per ampere (base currents are whole    *)
(*                   milliamperes, so x1.25, x1.5, x2.5 are exact),        *)
(*   temperatures  : tenths of a degree Celsius,                           *)
(*   factors       : hundredths (1.00 = 100),                              *)
(*   power factor  : thousandths (0.9 = 900),                              *)
(*   impedance     : milliohm per 1000 ft in the table,                    *)
(*   voltage drop  : 1/10000 of a percent (3.0 % = 30000).                 *)
(***************************************************************************)
EXTENDS Integers, Sequences, FiniteSets, TLC

VARIABLES op, arg, ret, tables, heap, calls, frames

vars == <<op, arg, ret, tables, heap, calls, frames>>

\* Fixed-point scale of a current: units per ampere, and per milliampere.
AmpUnits == 20 * 1000
MilliAmpUnits == AmpUnits \div 1000

\* a * b / c on integers, floor, without an intermediate product above
\* 2^31 as long as (c - 1) * b and the result fit.
MulDiv(a, b, c) == (a \div c) * b + ((a % c) * b) \div c

Min2(a, b) == IF a <= b THEN a ELSE b

(***************************************************************************)
(* standards/nec_tables.py                                                 *)
(***************************************************************************)

\* Table 310.15(B)(1): <<min C, max C, factor 60, factor 75, factor 90>>,
\* in the insertion order of the dict.
TEMP_CORRECTION_FACTORS ==
  << <<0, 10, 129, 120, 115>>,
     <<11, 15, 122, 115, 112>>,
     <<16, 20, 115, 111, 108>>,
     <<21, 25, 108, 105, 104>>,
     <<26, 30, 100, 100, 100>>,
     <<31, 35, 91, 94, 96>>,
     <<36, 40, 82, 88, 91>>,
     <<41, 45, 71, 82, 87>>,
     <<46, 50, 58, 75, 82>>,
     <<51, 55, 41, 67, 76>>,
     <<56, 60, 0, 58, 71>>,
     <<61, 70, 0, 47, 65>> >>

\* Table 310.15(C)(1): <<max conductors, factor>>, keys in sorted order.
GROUPING_FACTORS ==
  << <<3, 100>>, <<6, 80>>, <<9, 70>>, <<20, 50>>,
     <<30, 45>>, <<40, 40>>, <<100, 35>> >>

\* distinct_ratings.get(insulation_rating, 1.0)
RatingFactor(band, insulation_rating) ==
  CASE insulation_rating = 60 -> band[3]
    [] insulation_rating = 75 -> band[4]
    [] insulation_rating = 90 -> band[5]
    [] OTHER -> 100

\* The band loop of get_temp_correction: the index of the first band that
\* holds temp_c (tenths of a degree), 0 when the loop ends without one.
RECURSIVE BandOf(_, _)
BandOf(i, temp_c) ==
  IF i > Len(TEMP_CORRECTION_FACTORS) THEN 0
  ELSE IF TEMP_CORRECTION_FACTORS[i][1] * 10 <= temp_c
          /\ temp_c <= TEMP_CORRECTION_FACTORS[i][2] * 10
       THEN i
       ELSE BandOf(i + 1, temp_c)

\* What get_temp_correction returns after the loop found no band.
NoBandFactor(temp_c) ==
  IF temp_c <= 20 * 10 THEN 100
  ELSE IF temp_c >= 71 * 10 THEN 0
  ELSE 100

get_temp_correction(temp_c, insulation_rating) ==
  LET b == BandOf(1, temp_c) IN
    IF b # 0 THEN RatingFactor(TEMP_CORRECTION_FACTORS[b], insulation_rating)
    ELSE NoBandFactor(temp_c)

\* The fallback of get_grouping_factor when count is above every limit.
GroupingFallback == 35

\* Mutant: the limit test written with < instead of <=.
RECURSIVE GroupingScan_Strict(_, _)
GroupingScan_Strict(i, count) ==
  IF i > Len(GROUPING_FACTORS) THEN GroupingFallback
  ELSE IF count < GROUPING_FACTORS[i][1] THEN GROUPING_FACTORS[i][2]
       ELSE GroupingScan_Strict(i + 1, count)

RECURSIVE GroupingScan(_, _)
GroupingScan(i, count) ==
  IF i > Len(GROUPING_FACTORS) THEN GroupingFallback
  ELSE IF count <= GROUPING_FACTORS[i][1] THEN GROUPING_FACTORS[i][2]
       ELSE GroupingScan(i + 1, count)

get_grouping_factor(count) == GroupingScan(1, count)

\* Table 310.16, copper: size -> amperes at 60 C, 75 C and 90 C.
NEC_310_16_COPPER ==
  "14" :> [a60 |-> 15, a75 |-> 20, a90 |-> 25] @@ "12" :> [a60 |-> 20, a75 |-> 25, a90 |-> 30] @@
  "10" :> [a60 |-> 30, a75 |-> 35, a90 |-> 40] @@ "8" :> [a60 |-> 40, a75 |-> 50, a90 |-> 55] @@
  "6" :> [a60 |-> 55, a75 |-> 65, a90 |-> 75] @@ "4" :> [a60 |-> 70, a75 |-> 85, a90 |-> 95] @@
  "3" :> [a60 |-> 85, a75 |-> 100, a90 |-> 115] @@ "2" :> [a60 |-> 95, a75 |-> 115, a90 |-> 130] @@
  "1" :> [a60 |-> 110, a75 |-> 130, a90 |-> 145] @@ "1/0" :> [a60 |-> 125, a75 |-> 150, a90 |-> 170] @@
  "2/0" :> [a60 |-> 145, a75 |-> 175, a90 |-> 195] @@ "3/0" :> [a60 |-> 165, a75 |-> 200, a90 |-> 225] @@
  "4/0" :> [a60 |-> 195, a75 |-> 230, a90 |-> 260] @@ "250" :> [a60 |-> 215, a75 |-> 255, a90 |-> 290] @@
  "300" :> [a60 |-> 240, a75 |-> 285, a90 |-> 320] @@ "350" :> [a60 |-> 260, a75 |-> 310, a90 |-> 350] @@
  "400" :> [a60 |-> 280, a75 |-> 335, a90 |-> 380] @@ "500" :> [a60 |-> 320, a75 |-> 380, a90 |-> 430] @@
  "600" :> [a60 |-> 350, a75 |-> 420, a90 |-> 475] @@ "700" :> [a60 |-> 385, a75 |-> 460, a90 |-> 520] @@
  "750" :> [a60 |-> 400, a75 |-> 475, a90 |-> 535] @@ "800" :> [a60 |-> 410, a75 |-> 490, a90 |-> 555] @@
  "900" :> [a60 |-> 435, a75 |-> 520, a90 |-> 585] @@ "1000" :> [a60 |-> 455, a75 |-> 545, a90 |-> 615] @@
  "1250" :> [a60 |-> 495, a75 |-> 590, a90 |-> 665] @@ "1500" :> [a60 |-> 525, a75 |-> 625, a90 |-> 705] @@
  "1750" :> [a60 |-> 545, a75 |-> 650, a90 |-> 735] @@ "2000" :> [a60 |-> 555, a75 |-> 665, a90 |-> 750]

\* Chapter 9 Table 9: size -> conduit -> <<R, X>>, milliohm per 1000 ft.
TABLE_9_IMPEDANCE ==
  "14" :> [PVC |-> <<3100, 48>>, Steel |-> <<3100, 60>>] @@
  "12" :> [PVC |-> <<2000, 46>>, Steel |-> <<2000, 57>>] @@
  "10" :> [PVC |-> <<1200, 44>>, Steel |-> <<1200, 55>>] @@
  "8" :> [PVC |-> <<780, 52>>, Steel |-> <<780, 66>>] @@
  "6" :> [PVC |-> <<490, 51>>, Steel |-> <<490, 63>>] @@
  "4" :> [PVC |-> <<310, 48>>, Steel |-> <<310, 59>>] @@
  "3" :> [PVC |-> <<250, 47>>, Steel |-> <<250, 58>>] @@
  "2" :> [PVC |-> <<190, 45>>, Steel |-> <<200, 57>>] @@
  "1" :> [PVC |-> <<150, 46>>, Steel |-> <<160, 57>>] @@
  "1/0" :> [PVC |-> <<120, 44>>, Steel |-> <<130, 55>>] @@
  "2/0" :> [PVC |-> <<100, 43>>, Steel |-> <<100, 54>>] @@
  "3/0" :> [PVC |-> <<77, 42>>, Steel |-> <<82, 52>>] @@
  "4/0" :> [PVC |-> <<62, 41>>, Steel |-> <<67, 51>>] @@
  "250" :> [PVC |-> <<52, 41>>, Steel |-> <<54, 52>>] @@
  "300" :> [PVC |-> <<44, 41>>, Steel |-> <<45, 51>>] @@
  "350" :> [PVC |-> <<38, 40>>, Steel |-> <<39, 50>>] @@
  "400" :> [PVC |-> <<33, 40>>, Steel |-> <<35, 49>>] @@
  "500" :> [PVC |-> <<27, 39>>, Steel |-> <<29, 48>>] @@
  "600" :> [PVC |-> <<23, 39>>, Steel |-> <<25, 48>>]

\* The keys of the two dicts.
CopperKeys == DOMAIN NEC_310_16_COPPER
ImpedanceKeys == DOMAIN TABLE_9_IMPEDANCE

\* NEC_310_16_COPPER[size][rating], in amperes.
CopperAmps(size, rating) ==
  CASE rating = 60 -> NEC_310_16_COPPER[size].a60
    [] rating = 75 -> NEC_310_16_COPPER[size].a75
    [] rating = 90 -> NEC_310_16_COPPER[size].a90

(***************************************************************************)
(* standards/nec_logic.py                                                  *)
(***************************************************************************)

BREAKER_RATINGS ==
  <<15, 20, 25, 30, 35, 40, 45, 50, 60, 70, 80, 90, 100, 110, 125, 150,
    175, 200, 225, 250, 300, 350, 400, 500, 600, 800, 1000, 1200>>

\* A LoadInput is a record
\*   [power_watts, voltage, phases, is_continuous, is_motor,
\*    power_factor (thousandths), override_amps]
\* where override_amps is {} for None and {mA} for a given current.
\* An InstallationParams is a record
\*   [length_meters, conduit_type, insulation_rating,
\*    ambient_temp_c (tenths), raceway_count].

\* math.sqrt(3) to five digits, times 10000.
Sqrt3E4 == 17321

\* P / (V * pf) in milliamperes: watts, volts, pf in thousandths.
WattsToMilliAmps(power_watts, voltage, power_factor) ==
  MulDiv(MulDiv(power_watts, 1000, voltage), 1000, power_factor)

\* The base current of a load in milliamperes (nec_logic.py 12-19); the
\* caller has checked that the division is defined.
BaseMilliAmps(load) ==
  IF load.override_amps # {}
  THEN CHOOSE a \in load.override_amps : TRUE
  ELSE IF load.phases = 1
       THEN WattsToMilliAmps(load.power_watts, load.voltage, load.power_factor)
       ELSE MulDiv(WattsToMilliAmps(load.power_watts, load.voltage, load.power_factor),
                   10000, Sqrt3E4)

\* Mutant: the 125 % rule applied to motors as well.
ContinuousFactor_MotorToo(load) ==
  IF load.is_continuous \/ load.is_motor THEN 125 ELSE 100

\* factor = 1.25 if load.is_continuous else 1.0, in hundredths.
ContinuousFactor(load) == IF load.is_continuous THEN 125 ELSE 100

\* calculate_design_current: [exc, amps], amps in current units.  The
\* division raises ZeroDivisionError when voltage * power_factor is 0.
calculate_design_current(load) ==
  IF load.override_amps = {} /\ load.voltage * load.power_factor = 0
  THEN [exc |-> "ZeroDivisionError", amps |-> 0]
  ELSE [exc |-> "none",
        amps |-> MulDiv(BaseMilliAmps(load) * MilliAmpUnits, ContinuousFactor(load), 100)]

\* Floor of the square root of x, 0 <= lo <= sqrt(x) < hi.
RECURSIVE SqrtBetween(_, _, _)
SqrtBetween(lo, hi, x) ==
  IF hi - lo <= 1 THEN lo
  ELSE LET mid == (lo + hi) \div 2 IN
         IF mid * mid <= x THEN SqrtBetween(mid, hi, x)
         ELSE SqrtBetween(lo, mid, x)

\* math.sin(math.acos(pf)) in thousandths, pf in thousandths, |pf| <= 1.
SinOfAcos(pf) == SqrtBetween(0, 1001, 1000 * 1000 - pf * pf)

\* Mutant: the raceway looked up as it was given.
LookupConduit_AsGiven(conduit) == conduit

\* lookup_conduit = ConduitType.PVC if conduit == ConduitType.ALUMINUM else conduit
LookupConduit(conduit) == IF conduit = "Aluminum" THEN "PVC" ELSE conduit

\* Mutant: the impedance of the PVC raceway used for every raceway.
ImpedanceRX_AlwaysPVC(size_awg, lookup_conduit) == TABLE_9_IMPEDANCE[size_awg].PVC

\* TABLE_9_IMPEDANCE[size_awg].get(lookup_conduit, (0.1, 0.1)), milliohm.
ImpedanceRX(size_awg, lookup_conduit) ==
  CASE lookup_conduit = "PVC" -> TABLE_9_IMPEDANCE[size_awg].PVC
    [] lookup_conduit = "Steel" -> TABLE_9_IMPEDANCE[size_awg].Steel
    [] OTHER -> <<100, 100>>

\* Mutant: 0.0 returned for a size without impedance data.
VD_SENTINEL_Zero == 0 * 10000

\* The value of the sentinel 999.0 and of the 3.0 % limit, in 1/10000 %.
VD_SENTINEL == 999 * 10000
VD_LIMIT == 3 * 10000

\* params.length_meters * 3.28084, in tenths of a foot.
LengthTenthsFt(length_meters) == (length_meters * 328084) \div 10000

\* calculate_voltage_drop: [exc, vd], vd in 1/10000 of a percent.
\* current is in current units; the intermediate values are microvolts.
calculate_voltage_drop(current, size_awg, params, voltage, phases, pf) ==
  LET lookup_conduit == LookupConduit(params.conduit_type)
  IN
  IF size_awg \notin ImpedanceKeys
  THEN [exc |-> "none", vd |-> VD_SENTINEL]
  ELSE IF pf > 1000 \/ pf < 0 - 1000
  THEN [exc |-> "ValueError", vd |-> 0]
  ELSE
    LET rx == ImpedanceRX(size_awg, lookup_conduit)
        \* z_eff in 1/100000 ohm
        z_eff == (rx[1] * pf + rx[2] * SinOfAcos(pf)) \div 10
        k == IF phases = 3 THEN 1732 ELSE 2000
        milliamps == current \div MilliAmpUnits
        iz == (milliamps \div 1000) * z_eff * 10 + ((milliamps % 1000) * z_eff) \div 100
        kiz == MulDiv(iz, k, 1000)
        vd_microvolts == MulDiv(kiz, LengthTenthsFt(params.length_meters), 10000)
    IN IF voltage = 0
       THEN [exc |-> "ZeroDivisionError", vd |-> 0]
       ELSE [exc |-> "none", vd |-> vd_microvolts \div voltage]

\* sizes of select_conductor_and_breaker (nec_logic.py 73-74).
SELECT_SIZES ==
  <<"14", "12", "10", "8", "6", "4", "3", "2", "1", "1/0", "2/0", "3/0", "4/0",
    "250", "300", "350", "400", "500", "600", "700", "750", "800", "900",
    "1000", "1250", "1500", "1750", "2000">>

\* Mutant: the derated ampacity checked against the 125 % figure.
ActualLoad_NotDividedBack(load, i_req) == i_req

\* actual_load = i_req / 1.25 if load.is_continuous else i_req
ActualLoad(load, i_req) ==
  IF load.is_continuous THEN MulDiv(i_req, 100, 125) ELSE i_req

\* derating_base * total_derating in current units: amperes times two
\* factors in hundredths.
DeratedAmps(size, params, total_derating) ==
  CopperAmps(size, params.insulation_rating) * total_derating * (AmpUnits \div 10000)

\* The size loop (nec_logic.py 76-113) from index i on:
\* [exc, size, ampacity, vd]; size "" when the loop ends with no selection.
RECURSIVE SizeLoop(_, _, _, _, _)
SizeLoop(i, load, params, i_req, total_derating) ==
  IF i > Len(SELECT_SIZES)
  THEN [exc |-> "none", size |-> "", ampacity |-> 0, vd |-> 0]
  ELSE
    LET size == SELECT_SIZES[i]
        next == SizeLoop(i + 1, load, params, i_req, total_derating)
    IN
    IF size \notin CopperKeys THEN next
    ELSE
      LET base_amps_check == CopperAmps(size, 75) * AmpUnits
          derated_amps == DeratedAmps(size, params, total_derating)
          actual_load == ActualLoad(load, i_req)
      IN
      IF base_amps_check < i_req THEN next
      ELSE IF derated_amps < actual_load THEN next
      ELSE
        LET v == calculate_voltage_drop(actual_load, size, params, load.voltage,
                                        load.phases, load.power_factor)
        IN IF v.exc # "none"
           THEN [exc |-> v.exc, size |-> "", ampacity |-> 0, vd |-> 0]
           ELSE IF v.vd <= VD_LIMIT
           THEN [exc |-> "none", size |-> size,
                 ampacity |-> Min2(base_amps_check, derated_amps), vd |-> v.vd]
           ELSE next

\* Mutant: the breaker loop comparing with > instead of >=.
RECURSIVE BreakerLoop_Strict(_, _)
BreakerLoop_Strict(i, i_req) ==
  IF i > Len(BREAKER_RATINGS) THEN 15
  ELSE IF BREAKER_RATINGS[i] * AmpUnits > i_req THEN BREAKER_RATINGS[i]
       ELSE BreakerLoop_Strict(i + 1, i_req)

\* The breaker loop (nec_logic.py 121-126): first rating >= i_req, else 15.
RECURSIVE BreakerLoop(_, _)
BreakerLoop(i, i_req) ==
  IF i > Len(BREAKER_RATINGS) THEN 15
  ELSE IF BREAKER_RATINGS[i] * AmpUnits >= i_req THEN BREAKER_RATINGS[i]
       ELSE BreakerLoop(i + 1, i_req)

\* Mutant: the largest size of the list reported when nothing was selected.
SelectedSize_RoundedUp(size) == IF size = "" THEN "2000" ELSE size

\* if not selected_size: selected_size = "MAX_EXCEEDED"
SelectedSize(size) == IF size = "" THEN "MAX_EXCEEDED" ELSE size

\* What select_conductor_and_breaker returns when an exception escapes.
Raised(exc) ==
  [exc |-> exc, size |-> "", ampacity |-> 0, voltage_drop_percent |-> 0,
   breaker_rating |-> 0, f_temp |-> 0, f_group |-> 0]

\* select_conductor_and_breaker: a CableResult, with the exception that
\* escaped (exc) and with the factors that reference_notes prints.
select_conductor_and_breaker(load, params) ==
  LET dc == calculate_design_current(load) IN
  IF dc.exc # "none" THEN Raised(dc.exc)
  ELSE
    LET i_req == dc.amps
        f_temp == get_temp_correction(params.ambient_temp_c, params.insulation_rating)
        f_group == get_grouping_factor(params.raceway_count)
        total_derating == f_temp * f_group
        sel == SizeLoop(1, load, params, i_req, total_derating)
    IN
    IF sel.exc # "none" THEN Raised(sel.exc)
    ELSE [exc |-> "none",
          size |-> SelectedSize(sel.size),
          ampacity |-> sel.ampacity,
          voltage_drop_percent |-> sel.vd,
          breaker_rating |-> BreakerLoop(1, i_req),
          f_temp |-> f_temp,
          f_group |-> f_group]

(***************************************************************************)
(* core/components.py and standards/nec.py                                 *)
(***************************************************************************)

\* A Load is a record
\*   [power_watts (power_kw * 1000), voltage, phases, power_factor
\*    (thousandths), is_continuous, is_motor].

\* Load.current_amps: [exc, amps], amps in current units.
current_amps(load) ==
  IF load.phases = 1
  THEN IF load.voltage * load.power_factor = 0
       THEN [exc |-> "ZeroDivisionError", amps |-> 0]
       ELSE [exc |-> "none",
             amps |-> WattsToMilliAmps(load.power_watts, load.voltage,
                                       load.power_factor) * MilliAmpUnits]
  ELSE IF load.phases = 3
  THEN IF load.voltage * load.power_factor = 0
       THEN [exc |-> "ZeroDivisionError", amps |-> 0]
       ELSE [exc |-> "none",
             amps |-> MulDiv(WattsToMilliAmps(load.power_watts, load.voltage,
                                              load.power_factor), 1000, 1732)
                        * MilliAmpUnits]
  ELSE [exc |-> "none", amps |-> 0]

\* NECCalculator.BREAKER_RATINGS
NEC_BREAKER_RATINGS ==
  <<15, 20, 25, 30, 35, 40, 45, 50, 60, 70, 80, 90, 100, 110, 125, 150,
    175, 200, 225, 250, 300, 350, 400, 500, 600, 800, 1000, 1200>>

\* for rating in self.BREAKER_RATINGS: if rating >= target: ... break
\* The first rating at or above target (current units), 0 for None.
RECURSIVE FirstRatingAtLeast(_, _)
FirstRatingAtLeast(i, target) ==
  IF i > Len(NEC_BREAKER_RATINGS) THEN 0
  ELSE IF NEC_BREAKER_RATINGS[i] * AmpUnits >= target THEN NEC_BREAKER_RATINGS[i]
       ELSE FirstRatingAtLeast(i + 1, target)

\* for rating in reversed(self.BREAKER_RATINGS): if rating <= limit: ... break
\* The last rating at or below limit, 0 when the loop finds none.
RECURSIVE LastRatingAtMost(_, _)
LastRatingAtMost(i, limit) ==
  IF i < 1 THEN 0
  ELSE IF NEC_BREAKER_RATINGS[i] * AmpUnits <= limit THEN NEC_BREAKER_RATINGS[i]
       ELSE LastRatingAtMost(i - 1, limit)

\* Mutant: the motor breaker sized from 125 % of the base current.
MotorMinTarget_125(ib) == MulDiv(ib, 125, 100)

\* min_target = ib * 1.50 and max_allowed = ib * 2.50
MotorMinTarget(ib) == MulDiv(ib, 150, 100)
MotorMaxAllowed(ib) == MulDiv(ib, 250, 100)

\* The motor branch of select_breaker (nec.py 23-52): <<rating, ref>>,
\* ref being the parts the rationale string is built from.
MotorBreaker(ib) ==
  LET first == FirstRatingAtLeast(1, MotorMinTarget(ib))
      capped == first # 0 /\ first * AmpUnits > MotorMaxAllowed(ib)
      below == LastRatingAtMost(Len(NEC_BREAKER_RATINGS), MotorMaxAllowed(ib))
      selected == IF capped /\ below # 0 THEN below ELSE first
      ref == IF capped
             THEN <<"NEC 430.52 (Motor 150-250%)", " [CAPPED at 250%]">>
             ELSE <<"NEC 430.52 (Motor 150-250%)">>
  IN <<IF selected = 0 THEN NEC_BREAKER_RATINGS[Len(NEC_BREAKER_RATINGS)]
       ELSE selected,
       ref>>

\* The non-motor branch of select_breaker (nec.py 54-64): <<rating, ref>>.
StandardBreaker(ib, is_continuous) ==
  LET required_rating == IF is_continuous THEN MulDiv(ib, 125, 100) ELSE ib
      ref == IF is_continuous
             THEN <<"NEC 240.6(A)", " & NEC 210.19(A)(1) (125% Continuous)">>
             ELSE <<"NEC 240.6(A)">>
      first == FirstRatingAtLeast(1, required_rating)
  IN IF first # 0 THEN <<first, ref>>
     ELSE <<NEC_BREAKER_RATINGS[Len(NEC_BREAKER_RATINGS)], Append(ref, " (Max)")>>

\* NECCalculator.select_breaker: [exc, rated_current, poles, ref].
select_breaker(load) ==
  LET ib == current_amps(load) IN
  IF ib.exc # "none"
  THEN [exc |-> ib.exc, rated_current |-> 0, poles |-> 0, ref |-> <<>>]
  ELSE LET b == IF load.is_motor THEN MotorBreaker(ib.amps)
                ELSE StandardBreaker(ib.amps, load.is_continuous)
       IN [exc |-> "none", rated_current |-> b[1], poles |-> load.phases,
           ref |-> b[2]]

(***************************************************************************)
(* standards/nec_logic.py: calculate_main_feeder                           *)
(***************************************************************************)

\* A feeder load is a LoadInput record with its quantity:
\*   [power_watts, voltage, phases, is_continuous, is_motor,
\*    power_factor (thousandths), quantity, override_amps].

\* i_unit of one load (nec_logic.py 152-158 and 171-177): [exc, amps].
UnitAmps(l) ==
  IF l.override_amps = {} /\ l.voltage * l.power_factor = 0
  THEN [exc |-> "ZeroDivisionError", amps |-> 0]
  ELSE [exc |-> "none", amps |-> BaseMilliAmps(l) * MilliAmpUnits]

\* Some load of the list makes the division raise.
FeederRaises(loads) ==
  \E i \in 1 .. Len(loads) : UnitAmps(loads[i]).exc # "none"

\* Mutant: the largest motor found by its line total, quantity included.
RECURSIVE MaxMotorUnit_ByLineTotal(_, _)
MaxMotorUnit_ByLineTotal(loads, i) ==
  IF i > Len(loads) THEN 0
  ELSE LET rest == MaxMotorUnit_ByLineTotal(loads, i + 1)
           line == UnitAmps(loads[i]).amps * loads[i].quantity
       IN IF loads[i].is_motor /\ line > rest THEN line ELSE rest

\* max_motor_amps_unit after the motor loop (lines 149-161): the largest
\* i_unit among the motors, 0.0 when there is none.
RECURSIVE MaxMotorUnit(_, _)
MaxMotorUnit(loads, i) ==
  IF i > Len(loads) THEN 0
  ELSE LET rest == MaxMotorUnit(loads, i + 1)
           unit == UnitAmps(loads[i]).amps
       IN IF loads[i].is_motor /\ unit > rest THEN unit ELSE rest

\* total_amps after the motor loop (line 164): sum of i_unit * quantity.
RECURSIVE MotorsTotal(_, _)
MotorsTotal(loads, i) ==
  IF i > Len(loads) THEN 0
  ELSE (IF loads[i].is_motor
        THEN UnitAmps(loads[i]).amps * loads[i].quantity ELSE 0)
       + MotorsTotal(loads, i + 1)

\* What the loop over the other loads adds (lines 170-184).
RECURSIVE OthersTotal(_, _)
OthersTotal(loads, i) ==
  IF i > Len(loads) THEN 0
  ELSE (IF loads[i].is_motor THEN 0
        ELSE LET line_amps == UnitAmps(loads[i]).amps * loads[i].quantity
             IN IF loads[i].is_continuous THEN MulDiv(line_amps, 125, 100)
                ELSE line_amps)
       + OthersTotal(loads, i + 1)

\* total_amps before the demand factor (lines 146-184).
FeederSum(loads) ==
  LET max_motor_amps_unit == MaxMotorUnit(loads, 1)
  IN MotorsTotal(loads, 1)
     + (IF max_motor_amps_unit > 0 THEN max_motor_amps_unit \div 4 ELSE 0)
     + OthersTotal(loads, 1)

\* Mutant: the demand factor applied whatever its value.
ApplyDemand_Always(total_amps, user_demand_factor) ==
  MulDiv(total_amps, user_demand_factor, 100)

\* if user_demand_factor < 1.0: total_amps *= user_demand_factor
\* (nec_logic.py 187-188, nec.py 126-127); the factor is in hundredths.
ApplyDemand(total_amps, user_demand_factor) ==
  IF user_demand_factor < 100 THEN MulDiv(total_amps, user_demand_factor, 100)
  ELSE total_amps

\* sizes of calculate_main_feeder (line 194) and full_sizes (line 211).
FEEDER_SIZES ==
  <<"1/0", "2/0", "3/0", "4/0", "250", "300", "350", "400", "500", "600",
    "750", "800", "1000", "1250", "1500", "1750", "2000">>
FEEDER_FULL_SIZES ==
  <<"14", "12", "10", "8", "6", "4", "3", "2", "1">> \o FEEDER_SIZES

\* for s in sizes: if cap >= total_amps / n: ... break.  The first size of
\* the list whose 75 C ampacity covers total_amps / n, "" when none does.
RECURSIVE FirstCovering(_, _, _, _)
FirstCovering(sizes, i, total_amps, n) ==
  IF i > Len(sizes) THEN ""
  ELSE IF sizes[i] \in CopperKeys
          /\ CopperAmps(sizes[i], 75) * AmpUnits * n >= total_amps
       THEN sizes[i]
       ELSE FirstCovering(sizes, i + 1, total_amps, n)

\* Mutant: the run loop stopping at its first find, a single run included.
RECURSIVE RunLoop_FirstFound(_, _, _, _)
RunLoop_FirstFound(n, total_amps, selected_size, num_runs) ==
  IF n > 9 THEN <<selected_size, num_runs>>
  ELSE LET s == FirstCovering(FEEDER_SIZES, 1, total_amps, n)
       IN IF s # "" THEN <<s, n>>
          ELSE RunLoop_FirstFound(n + 1, total_amps, selected_size, num_runs)

\* for n in range(1, 10) (lines 197-209): <<selected_size, num_runs>>.
RECURSIVE RunLoop(_, _, _, _)
RunLoop(n, total_amps, selected_size, num_runs) ==
  IF n > 9 THEN <<selected_size, num_runs>>
  ELSE LET s == FirstCovering(FEEDER_SIZES, 1, total_amps, n)
           found == s # ""
           size2 == IF found THEN s ELSE selected_size
           runs2 == IF found THEN n ELSE num_runs
       IN IF found /\ runs2 > 1 THEN <<size2, runs2>>
          ELSE IF found /\ runs2 = 1 /\ total_amps <= 420 * AmpUnits * n
          THEN <<size2, runs2>>
          ELSE RunLoop(n + 1, total_amps, size2, runs2)

\* Mutant: the single run chosen among the sizes for parallel runs only.
SingleRunSize_ParallelSizesOnly(total_amps) ==
  LET s == FirstCovering(FEEDER_SIZES, 1, total_amps, 1)
  IN IF s = "" THEN "TBD" ELSE s

\* The else branch (lines 210-215): the first of full_sizes covering the
\* total, "TBD" when the loop ends without one.
SingleRunSize(total_amps) ==
  LET s == FirstCovering(FEEDER_FULL_SIZES, 1, total_amps, 1)
  IN IF s = "" THEN "TBD" ELSE s

\* calculate_main_feeder: the dict returned, with the exception that
\* escaped (exc); description is built from the other two fields.
calculate_main_feeder(loads, user_demand_factor) ==
  IF FeederRaises(loads)
  THEN [exc |-> "ZeroDivisionError", total_amps |-> 0, cable_size |-> "",
        parallel_runs |-> 0]
  ELSE LET total_amps == ApplyDemand(FeederSum(loads), user_demand_factor)
           sel == IF total_amps > 400 * AmpUnits
                  THEN RunLoop(1, total_amps, "TBD", 1)
                  ELSE <<SingleRunSize(total_amps), 1>>
       IN [exc |-> "none", total_amps |-> total_amps, cable_size |-> sel[1],
           parallel_runs |-> sel[2]]

(***************************************************************************)
(* standards/nec.py: feeder conductors and grounding conductor             *)
(***************************************************************************)

\* NECCalculator.CABLE_AMPACITY in insertion order: <<size, amperes>>.
CABLE_AMPACITY ==
  <<<<"14", 20>>, <<"12", 25>>, <<"10", 35>>, <<"8", 50>>, <<"6", 65>>,
    <<"4", 85>>, <<"3", 100>>, <<"2", 115>>, <<"1", 130>>, <<"1/0", 150>>,
    <<"2/0", 175>>, <<"3/0", 200>>, <<"4/0", 230>>, <<"250", 255>>,
    <<"300", 285>>, <<"350", 310>>, <<"400", 335>>, <<"500", 380>>,
    <<"600", 420>>>>

\* A Cable is a record [size_awg, ampacity (current units), insulation];
\* the reference string returned with it is the sequence of its parts.

\* The scan of CABLE_AMPACITY from entry i on for the first entry whose
\* ampacity times n covers amps; 0 when there is none.
RECURSIVE CableScan(_, _, _)
CableScan(i, amps, n) ==
  IF i > Len(CABLE_AMPACITY) THEN 0
  ELSE IF CABLE_AMPACITY[i][2] * AmpUnits * n >= amps THEN i
       ELSE CableScan(i + 1, amps, n)

\* _select_cable_for_amps: the first entry that covers amps, else 600 (Max).
select_cable_for_amps(amps) ==
  LET i == CableScan(1, amps, 1)
  IN IF i # 0
     THEN [cable |-> [size_awg |-> CABLE_AMPACITY[i][1],
                      ampacity |-> CABLE_AMPACITY[i][2] * AmpUnits,
                      insulation |-> "THHN"],
           ref |-> <<"NEC 310.16">>, num_sets |-> 1]
     ELSE [cable |-> [size_awg |-> "600", ampacity |-> 420 * AmpUnits,
                      insulation |-> "THHN"],
           ref |-> <<"NEC 310.16 (Max)">>, num_sets |-> 1]

\* candidate_sizes starts at "1/0", the tenth entry of CABLE_AMPACITY, and
\* runs to its end.
FirstCandidate == CHOOSE i \in 1 .. Len(CABLE_AMPACITY) : CABLE_AMPACITY[i][1] = "1/0"

\* while num_sets <= 6 (nec.py 152-175): <<num_sets, entry>> of the first
\* viable configuration, <<0, 0>> when the loop ends without one.
RECURSIVE SetsLoop(_, _)
SetsLoop(num_sets, amps) ==
  IF num_sets > 6 THEN <<0, 0>>
  ELSE LET i == CableScan(FirstCandidate, amps, num_sets)
       IN IF i # 0 THEN <<num_sets, i>> ELSE SetsLoop(num_sets + 1, amps)

\* Mutant: the largest standard cable returned when no configuration fits.
CustomCable_LargestStandard(amps) ==
  [cable |-> [size_awg |-> "600", ampacity |-> 420 * AmpUnits,
              insulation |-> "THHN"],
   ref |-> <<"NEC 310.16 (Max)">>, num_sets |-> 1]

\* The fallback of _select_cable_parallel_logic (nec.py 177-178).
CustomCable(amps) ==
  [cable |-> [size_awg |-> "CUSTOM", ampacity |-> amps, insulation |-> "BUSBAR"],
   ref |-> <<"Exceeds Standard Cable Capacity">>, num_sets |-> 0]

\* if amps <= 420 (nec.py 143)
SingleRunCeiling(amps) == amps <= 420 * AmpUnits

\* _select_cable_parallel_logic: [cable, ref, num_sets]; num_sets is the
\* number of sets the reference string prints (1 for a single run, 0 for
\* CUSTOM); the CUSTOM cable carries amps itself as its ampacity.
select_cable_parallel_logic(amps) ==
  IF SingleRunCeiling(amps) THEN select_cable_for_amps(amps)
  ELSE LET found == SetsLoop(2, amps)
       IN IF found[1] # 0
          THEN [cable |-> [size_awg |-> CABLE_AMPACITY[found[2]][1],
                           ampacity |-> CABLE_AMPACITY[found[2]][2] * AmpUnits * found[1],
                           insulation |-> "THHN"],
                ref |-> <<"NEC 310.10(H) (", ToString(found[1]), "x ",
                          CABLE_AMPACITY[found[2]][1], " AWG/kcmil)">>,
                num_sets |-> found[1]]
          ELSE CustomCable(amps)

\* largest_motor.current_amps (nec.py 96): 0 when there is no motor.
RECURSIVE LargestMotorAmps(_, _)
LargestMotorAmps(loads, i) ==
  IF i > Len(loads) THEN 0
  ELSE LET rest == LargestMotorAmps(loads, i + 1)
           ib == current_amps(loads[i]).amps
       IN IF loads[i].is_motor /\ ib > rest THEN ib ELSE rest

\* sum(l.current_amps for l in loads if keep(l)), keep given as a set of
\* <<is_motor, is_continuous>> pairs.
RECURSIVE SumAmps(_, _, _)
SumAmps(loads, i, keep) ==
  IF i > Len(loads) THEN 0
  ELSE (IF <<loads[i].is_motor, loads[i].is_continuous>> \in keep
        THEN current_amps(loads[i]).amps ELSE 0)
       + SumAmps(loads, i + 1, keep)

\* total_amps before the demand factor (nec.py 99-118).
FeederConductorsSum(loads) ==
  LargestMotorAmps(loads, 1) \div 4
  + SumAmps(loads, 1, {<<TRUE, TRUE>>, <<TRUE, FALSE>>})
  + MulDiv(SumAmps(loads, 1, {<<FALSE, TRUE>>}), 125, 100)
  + SumAmps(loads, 1, {<<FALSE, FALSE>>})

\* calculate_feeder_conductors: [exc, total_amps, cable, ref, num_sets],
\* ref being the cable part of the reference string.
calculate_feeder_conductors(loads, user_demand_factor) ==
  IF \E i \in 1 .. Len(loads) : current_amps(loads[i]).exc # "none"
  THEN [exc |-> "ZeroDivisionError", total_amps |-> 0,
        cable |-> [size_awg |-> "", ampacity |-> 0, insulation |-> ""],
        ref |-> <<>>, num_sets |-> 0]
  ELSE LET total_amps == ApplyDemand(FeederConductorsSum(loads), user_demand_factor)
           sel == select_cable_parallel_logic(total_amps)
       IN [exc |-> "none", total_amps |-> total_amps, cable |-> sel.cable,
           ref |-> sel.ref, num_sets |-> sel.num_sets]

\* Table 250.122 of calculate_grounding_conductor: <<limit, size>>.
GROUNDING_TABLE ==
  <<<<15, "14">>, <<20, "12">>, <<60, "10">>, <<100, "8">>, <<200, "6">>,
    <<300, "4">>, <<400, "3">>, <<500, "2">>, <<600, "1">>, <<800, "1/0">>,
    <<1000, "2/0">>, <<1200, "3/0">>, <<1600, "4/0">>, <<2000, "250">>,
    <<2500, "350">>, <<3000, "400">>, <<4000, "500">>, <<5000, "700">>,
    <<6000, "800">>>>

\* Mutant: the table scanned with < instead of <=.
RECURSIVE GroundingScan_Strict(_, _)
GroundingScan_Strict(i, rating) ==
  IF i > Len(GROUNDING_TABLE) THEN "800"
  ELSE IF rating < GROUNDING_TABLE[i][1] THEN GROUNDING_TABLE[i][2]
       ELSE GroundingScan_Strict(i + 1, rating)

\* for limit, size in table: if rating <= limit: ... break; "800" otherwise.
RECURSIVE GroundingScan(_, _)
GroundingScan(i, rating) ==
  IF i > Len(GROUNDING_TABLE) THEN "800"
  ELSE IF rating <= GROUNDING_TABLE[i][1] THEN GROUNDING_TABLE[i][2]
       ELSE GroundingScan(i + 1, rating)

\* calculate_grounding_conductor, rating being breaker.rated_current in
\* amperes: the Cable and its reference.
calculate_grounding_conductor(rating) ==
  [cable |-> [size_awg |-> GroundingScan(1, rating), ampacity |-> 0,
              insulation |-> "Green"],
   ref |-> <<"NEC 250.122 Table">>]

(***************************************************************************)
(* standards/nec.py: select_cable, calculate_main_protection, and          *)
(* core/calculator.py: calculate_circuit                                   *)
(***************************************************************************)

\* min_ampacity of select_cable (nec.py 69-87): 125 % of ib for a motor or
\* a continuous load, raised to the breaker rating for a non-motor load.
MinAmpacity(load, ib, rated_current) ==
  LET by_load == IF load.is_motor \/ load.is_continuous
                 THEN MulDiv(ib, 125, 100) ELSE ib
  IN IF ~load.is_motor /\ rated_current * AmpUnits > by_load
     THEN rated_current * AmpUnits ELSE by_load

\* NECCalculator.select_cable: [exc, cable, ref], ref being the cable part
\* of the reference string.
select_cable(load, rated_current) ==
  LET ib == current_amps(load) IN
  IF ib.exc # "none"
  THEN [exc |-> ib.exc,
        cable |-> [size_awg |-> "", ampacity |-> 0, insulation |-> ""],
        ref |-> <<>>]
  ELSE LET sel == select_cable_for_amps(MinAmpacity(load, ib.amps, rated_current))
       IN [exc |-> "none", cable |-> sel.cable, ref |-> sel.ref]

\* DistributionBoardCalculator.calculate_circuit on a NECCalculator:
\* select_breaker, then select_cable with the breaker it returned.
NEC_calculate_circuit(load) ==
  LET b == select_breaker(load) IN
  IF b.exc # "none"
  THEN [exc |-> b.exc, rated_current |-> 0,
        cable |-> [size_awg |-> "", ampacity |-> 0, insulation |-> ""],
        cable_ref |-> <<>>]
  ELSE LET c == select_cable(load, b.rated_current)
       IN [exc |-> c.exc, rated_current |-> b.rated_current,
           cable |-> c.cable, cable_ref |-> c.ref]

\* next_rating = self.BREAKER_RATINGS[idx + 1] when idx + 1 is in the list
\* (nec.py 204-206), 0 when selected_rating is the last rating.
NextRatingUp(selected_rating) ==
  LET idx == CHOOSE i \in 1 .. Len(NEC_BREAKER_RATINGS) :
               NEC_BREAKER_RATINGS[i] = selected_rating
  IN IF idx + 1 <= Len(NEC_BREAKER_RATINGS) THEN NEC_BREAKER_RATINGS[idx + 1]
     ELSE 0

\* The 240.4(B) test of calculate_main_protection (nec.py 202), taken with
\* a ceiling of 1200 A instead of 800 A.
RoundsUp_To1200(selected_rating, ampacity) ==
  /\ selected_rating # 0
  /\ selected_rating * AmpUnits < ampacity
  /\ ampacity <= 1200 * AmpUnits

\* if selected_rating and selected_rating < ampacity and ampacity <= 800
RoundsUp(selected_rating, ampacity) ==
  /\ selected_rating # 0
  /\ selected_rating * AmpUnits < ampacity
  /\ ampacity <= 800 * AmpUnits

\* NECCalculator.calculate_main_protection, ampacity being
\* feeder_cable.ampacity in current units: [rated_current, poles, ref].
calculate_main_protection(ampacity) ==
  LET selected_rating == LastRatingAtMost(Len(NEC_BREAKER_RATINGS), ampacity)
  IN IF RoundsUp(selected_rating, ampacity) /\ NextRatingUp(selected_rating) # 0
     THEN [rated_current |-> NextRatingUp(selected_rating), poles |-> 3,
           ref |-> "NEC 240.4(B) (Round Up)"]
     ELSE [rated_current |-> IF selected_rating = 0 THEN NEC_BREAKER_RATINGS[1]
                             ELSE selected_rating,
           poles |-> 3, ref |-> "NEC 240.4 (Strict In <= Iz)"]

(***************************************************************************)
(* standards/iec.py                                                        *)
(***************************************************************************)

\* IECCalculator.BREAKER_RATINGS
IEC_BREAKER_RATINGS ==
  <<6, 10, 16, 20, 25, 32, 40, 50, 63, 80, 100, 125, 160, 250, 400, 630>>

\* IECCalculator.CABLE_AMPACITY in insertion order:
\* <<size in tenths of mm2, ampacity in tenths of an ampere>>.
IEC_CABLE_AMPACITY ==
  <<<<15, 175>>, <<25, 240>>, <<40, 320>>, <<60, 410>>, <<100, 570>>,
    <<160, 760>>, <<250, 1010>>, <<350, 1250>>, <<500, 1510>>,
    <<700, 1920>>, <<950, 2320>>, <<1200, 2690>>, <<1500, 3090>>>>

\* Current units in a tenth of an ampere.
TenthAmpUnits == AmpUnits \div 10

\* for rating in self.BREAKER_RATINGS: if rating >= ib: return ...
\* The first rating at or above ib, 0 when the loop ends.
RECURSIVE IEC_FirstRating(_, _)
IEC_FirstRating(i, ib) ==
  IF i > Len(IEC_BREAKER_RATINGS) THEN 0
  ELSE IF IEC_BREAKER_RATINGS[i] * AmpUnits >= ib THEN IEC_BREAKER_RATINGS[i]
       ELSE IEC_FirstRating(i + 1, ib)

\* IECCalculator.select_breaker: [exc, rated_current, poles, ref].
IEC_select_breaker(load) ==
  LET ib == current_amps(load) IN
  IF ib.exc # "none"
  THEN [exc |-> ib.exc, rated_current |-> 0, poles |-> 0, ref |-> ""]
  ELSE LET first == IEC_FirstRating(1, ib.amps)
       IN IF first # 0
          THEN [exc |-> "none", rated_current |-> first, poles |-> load.phases,
                ref |-> "IEC 60898 Standard Rating"]
          ELSE [exc |-> "none",
                rated_current |-> IEC_BREAKER_RATINGS[Len(IEC_BREAKER_RATINGS)],
                poles |-> load.phases, ref |-> "IEC 60898 (Max)"]

\* for size, ampacity in self.CABLE_AMPACITY.items(): if ampacity >= amps
\* The first entry covering amps (current units), 0 when there is none.
RECURSIVE IEC_CableScan(_, _)
IEC_CableScan(i, amps) ==
  IF i > Len(IEC_CABLE_AMPACITY) THEN 0
  ELSE IF IEC_CABLE_AMPACITY[i][2] * TenthAmpUnits >= amps THEN i
       ELSE IEC_CableScan(i + 1, amps)

\* A Cable of IECCalculator: [size_mm2 (tenths), ampacity (current units),
\* insulation].
IEC_Cable(i) ==
  [size_mm2 |-> IEC_CABLE_AMPACITY[i][1],
   ampacity |-> IEC_CABLE_AMPACITY[i][2] * TenthAmpUnits, insulation |-> "PVC"]

\* IECCalculator.select_cable: the first cable with Iz >= In, else 150 mm2.
IEC_select_cable(load, rated_current) ==
  LET i == IEC_CableScan(1, rated_current * AmpUnits)
  IN IF i # 0 THEN [cable |-> IEC_Cable(i), ref |-> "IEC 60364-5-52 Simplified"]
     ELSE [cable |-> [size_mm2 |-> 1500, ampacity |-> 309 * AmpUnits,
                      insulation |-> "PVC"],
           ref |-> "IEC 60364-5-52 (Max)"]

\* DistributionBoardCalculator.calculate_circuit on an IECCalculator.
IEC_calculate_circuit(load) ==
  LET b == IEC_select_breaker(load) IN
  IF b.exc # "none"
  THEN [exc |-> b.exc, rated_current |-> 0,
        cable |-> [size_mm2 |-> 0, ampacity |-> 0, insulation |-> ""],
        cable_ref |-> ""]
  ELSE LET c == IEC_select_cable(load, b.rated_current)
       IN [exc |-> "none", rated_current |-> b.rated_current,
           cable |-> c.cable, cable_ref |-> c.ref]

\* rdf by the number of circuits (iec.py 53-63), in hundredths.
RatedDiversityFactor(num_circuits) ==
  IF num_circuits <= 1 THEN 100
  ELSE IF num_circuits <= 3 THEN 90
  ELSE IF num_circuits <= 5 THEN 80
  ELSE IF num_circuits <= 9 THEN 70
  ELSE 60

\* IECCalculator._select_cable_for_amps
IEC_select_cable_for_amps(amps) ==
  LET i == IEC_CableScan(1, amps)
  IN IF i # 0 THEN [cable |-> IEC_Cable(i), ref |-> "IEC 60364-5-52"]
     ELSE [cable |-> [size_mm2 |-> 1500, ampacity |-> 309 * AmpUnits,
                      insulation |-> "PVC"],
           ref |-> "IEC 60364-5-52 (Max - Needs Parallel)"]

\* IECCalculator.calculate_feeder_conductors:
\* [exc, total_current_design, rdf, cable, ref].
IEC_calculate_feeder_conductors(loads, user_demand_factor) ==
  IF \E i \in 1 .. Len(loads) : current_amps(loads[i]).exc # "none"
  THEN [exc |-> "ZeroDivisionError", total_current_design |-> 0, rdf |-> 0,
        cable |-> [size_mm2 |-> 0, ampacity |-> 0, insulation |-> ""],
        ref |-> ""]
  ELSE LET rdf == IF user_demand_factor < 100 THEN user_demand_factor
                  ELSE RatedDiversityFactor(Len(loads))
           sum_ib == SumAmps(loads, 1, BOOLEAN \X BOOLEAN)
           total_current_design == MulDiv(sum_ib, rdf, 100)
           sel == IEC_select_cable_for_amps(total_current_design)
       IN [exc |-> "none", total_current_design |-> total_current_design,
           rdf |-> rdf, cable |-> sel.cable, ref |-> sel.ref]

(***************************************************************************)
(* Calls of the table functions                                            *)
(***************************************************************************)

\* Ambient temperatures tried: -LowAmbientTenths .. MaxAmbientTenths,
\* in tenths of a degree, so fractional temperatures are covered.
LowAmbientTenths == 50
MaxAmbientTenths == 750
\* Conductor counts tried: 0 .. MaxCount.
MaxCount == 105

AmbientTenths == (0 - LowAmbientTenths) .. MaxAmbientTenths
InsulationRatings == {60, 75, 90}

\* The table objects of the program: the module-level dicts and list of
\* nec_tables.py and nec_logic.py and the class attributes of
\* NECCalculator and IECCalculator.
TheTables ==
  [TEMP_CORRECTION_FACTORS |-> TEMP_CORRECTION_FACTORS,
   GROUPING_FACTORS |-> GROUPING_FACTORS,
   NEC_310_16_COPPER |-> NEC_310_16_COPPER,
   TABLE_9_IMPEDANCE |-> TABLE_9_IMPEDANCE,
   BREAKER_RATINGS |-> BREAKER_RATINGS,
   NEC_BREAKER_RATINGS |-> NEC_BREAKER_RATINGS,
   CABLE_AMPACITY |-> CABLE_AMPACITY,
   IEC_BREAKER_RATINGS |-> IEC_BREAKER_RATINGS,
   IEC_CABLE_AMPACITY |-> IEC_CABLE_AMPACITY]

\* The callers of a session, and the frame of a caller that has no call of
\* _select_cable_parallel_logic in progress.
Callers == {1, 2}
IdleFrame ==
  [busy |-> FALSE, amps |-> 0, obj |-> 0, num_sets |-> 0,
   best_fit_cable |-> "", best_fit_ampacity |-> 0]

Init ==
  /\ op = "none"
  /\ arg = [none |-> TRUE]
  /\ ret = [none |-> TRUE]
  /\ tables = TheTables
  /\ heap = <<>>
  /\ calls = <<>>
  /\ frames = [c \in Callers |-> IdleFrame]

\* No function of the program assigns to a table, and a single call leaves
\* the objects of a session alone.
TablesAndSessionUnchanged == UNCHANGED <<tables, heap, calls, frames>>

GetTempCorrection ==
  /\ op = "none"
  /\ TablesAndSessionUnchanged
  /\ \E t \in AmbientTenths, r \in InsulationRatings :
       /\ op' = "get_temp_correction"
       /\ arg' = [temp_c |-> t, insulation_rating |-> r]
       /\ ret' = [factor |-> get_temp_correction(t, r)]

GetGroupingFactor ==
  /\ op = "none"
  /\ TablesAndSessionUnchanged
  /\ \E n \in 0 .. MaxCount :
       /\ op' = "get_grouping_factor"
       /\ arg' = [count |-> n]
       /\ ret' = [factor |-> get_grouping_factor(n)]

NextTables == GetTempCorrection \/ GetGroupingFactor

SpecTables == Init /\ [][NextTables]_vars

(***************************************************************************)
(* Calls of NECLogic                                                       *)
(***************************************************************************)

RECURSIVE Pow(_, _)
Pow(b, e) == IF e = 0 THEN 1 ELSE b * Pow(b, e - 1)

\* Currents entered directly: 5 A times 4^k for k in 0 .. MaxAmpSteps.
MaxAmpSteps == 4
OverrideMilliAmps == {5000 * Pow(4, k) : k \in 0 .. MaxAmpSteps}

\* The supplies tried: <<voltage, phases>>.
Supplies == {<<220, 1>>, <<480, 3>>}

\* The loads the selection is tried on.  Valid ones: power in watts or a
\* current in amperes, on either supply, pf 0.9 or 1.0.
ValidLoads ==
  {[power_watts |-> src[1], override_amps |-> src[2], voltage |-> sup[1],
    phases |-> sup[2], power_factor |-> pf, is_continuous |-> c, is_motor |-> m] :
     src \in ({<<5000, {}>>, <<50000, {}>>}
              \cup {<<0, {a}>> : a \in OverrideMilliAmps}),
     sup \in Supplies, pf \in {900, 1000},
     c \in BOOLEAN, m \in BOOLEAN}

\* Malformed ones: zero voltage, zero power factor, power factor above 1.
MalformedLoads ==
  {[power_watts |-> src[1], override_amps |-> src[2], voltage |-> vp[1],
    phases |-> 1, power_factor |-> vp[2], is_continuous |-> FALSE,
    is_motor |-> FALSE] :
     src \in {<<5000, {}>>, <<0, {20000}>>},
     vp \in {<<0, 900>>, <<220, 0>>, <<220, 1100>>}}

Loads == ValidLoads \cup MalformedLoads

\* Installations: ambient temperatures below 0 C, inside bands, between two
\* bands (35.5, 70.5) and above the table; counts on both sides of a step.
AmbientSamples == {0 - 50, 50, 300, 355, 550, 705, 710}
CountSamples == {3, 6, 41}
ConduitTypes == {"PVC", "Steel", "Aluminum"}
LengthSamples == {10, 200}

Installations ==
  [length_meters : LengthSamples, conduit_type : ConduitTypes,
   insulation_rating : InsulationRatings, ambient_temp_c : AmbientSamples,
   raceway_count : CountSamples]

\* A first evaluation of a circuit.
SelectConductorAndBreaker ==
  /\ op = "none"
  /\ TablesAndSessionUnchanged
  /\ \E l \in Loads, p \in Installations :
       /\ op' = "select_conductor_and_breaker"
       /\ arg' = [load |-> l, params |-> p]
       /\ ret' = select_conductor_and_breaker(l, p)

\* The same load evaluated again at a higher ambient temperature.
SelectAtHigherAmbient ==
  /\ op = "select_conductor_and_breaker"
  /\ TablesAndSessionUnchanged
  /\ \E t \in {a \in AmbientSamples : a > arg.params.ambient_temp_c} :
       LET p == [arg.params EXCEPT !.ambient_temp_c = t] IN
         /\ op' = op
         /\ arg' = [arg EXCEPT !.params = p]
         /\ ret' = select_conductor_and_breaker(arg.load, p)

\* The same load evaluated again with more conductors in the raceway.
SelectAtHigherCount ==
  /\ op = "select_conductor_and_breaker"
  /\ TablesAndSessionUnchanged
  /\ \E n \in {c \in CountSamples : c > arg.params.raceway_count} :
       LET p == [arg.params EXCEPT !.raceway_count = n] IN
         /\ op' = op
         /\ arg' = [arg EXCEPT !.params = p]
         /\ ret' = select_conductor_and_breaker(arg.load, p)

NextSelect ==
  SelectConductorAndBreaker \/ SelectAtHigherAmbient \/ SelectAtHigherCount

SpecSelect == Init /\ [][NextSelect]_vars

\* Powers tried for the design current: the 5 kW and 50 kW of the worked
\* examples, and 100 W doubled k times for k in 0 .. MaxPowerSteps.
MaxPowerSteps == 12
PowerSamples == {5000, 50000} \cup {100 * Pow(2, k) : k \in 0 .. MaxPowerSteps}

CurrentLoads ==
  {[power_watts |-> src[1], override_amps |-> src[2], voltage |-> v,
    phases |-> ph, power_factor |-> pf, is_continuous |-> c, is_motor |-> m] :
     src \in ({<<w, {}>> : w \in PowerSamples}
              \cup {<<0, {a}>> : a \in OverrideMilliAmps}),
     v \in {0, 120, 220, 480}, ph \in {1, 3}, pf \in {0, 800, 900, 1000},
     c \in BOOLEAN, m \in BOOLEAN}

CalculateDesignCurrent ==
  /\ op = "none"
  /\ TablesAndSessionUnchanged
  /\ \E l \in CurrentLoads :
       /\ op' = "calculate_design_current"
       /\ arg' = [load |-> l]
       /\ ret' = calculate_design_current(l)

SpecCurrent == Init /\ [][CalculateDesignCurrent]_vars

(***************************************************************************)
(* Calls of NECCalculator                                                  *)
(***************************************************************************)

BreakerLoads ==
  [power_watts : PowerSamples, voltage : {0, 120, 220, 480}, phases : {1, 3},
   power_factor : {0, 800, 900, 1000}, is_continuous : BOOLEAN,
   is_motor : BOOLEAN]

SelectBreaker ==
  /\ op = "none"
  /\ TablesAndSessionUnchanged
  /\ \E l \in BreakerLoads :
       /\ op' = "select_breaker"
       /\ arg' = [load |-> l]
       /\ ret' = select_breaker(l)

\* The installation the breaker claims evaluate NECLogic at: 10 m of PVC
\* raceway, 75 C insulation, 30 C ambient, three conductors.
ReferenceInstallations ==
  {[length_meters |-> 10, conduit_type |-> "PVC", insulation_rating |-> 75,
    ambient_temp_c |-> 300, raceway_count |-> 3]}

SelectAtReference ==
  /\ op = "none"
  /\ TablesAndSessionUnchanged
  /\ \E l \in CurrentLoads, p \in ReferenceInstallations :
       /\ op' = "select_conductor_and_breaker"
       /\ arg' = [load |-> l, params |-> p]
       /\ ret' = select_conductor_and_breaker(l, p)

NextBreaker == SelectBreaker \/ SelectAtReference

SpecBreaker == Init /\ [][NextBreaker]_vars

(***************************************************************************)
(* Calls of calculate_voltage_drop                                         *)
(***************************************************************************)

\* Currents, lengths, voltages and power factors the voltage drop is
\* computed for, on every size of the selection list (tabulated or not) and
\* in every raceway.
DropAmps == {20 * AmpUnits, 80 * AmpUnits, 320 * AmpUnits}
DropLengths == {50, 200}
DropVoltages == {0, 120, 480}
DropPowerFactors == {500, 900, 990, 1000}
DropSizes == {SELECT_SIZES[i] : i \in 1 .. Len(SELECT_SIZES)}

DropParams(length, conduit) ==
  [length_meters |-> length, conduit_type |-> conduit, insulation_rating |-> 75,
   ambient_temp_c |-> 300, raceway_count |-> 3]

CalculateVoltageDrop ==
  /\ op = "none"
  /\ TablesAndSessionUnchanged
  /\ \E current \in DropAmps, size_awg \in DropSizes, length \in DropLengths,
        conduit \in ConduitTypes, voltage \in DropVoltages, phases \in {1, 3},
        pf \in DropPowerFactors :
       /\ op' = "calculate_voltage_drop"
       /\ arg' = [current |-> current, size_awg |-> size_awg,
                  params |-> DropParams(length, conduit), voltage |-> voltage,
                  phases |-> phases, pf |-> pf]
       /\ ret' = calculate_voltage_drop(current, size_awg,
                                        DropParams(length, conduit), voltage,
                                        phases, pf)

\* Loads selected in each raceway: the powers and currents of ValidLoads
\* and 500 A, which only sizes without impedance data can carry.
RacewayLoads ==
  {[power_watts |-> src[1], override_amps |-> src[2], voltage |-> sup[1],
    phases |-> sup[2], power_factor |-> pf, is_continuous |-> c,
    is_motor |-> FALSE] :
     src \in ({<<5000, {}>>, <<50000, {}>>}
              \cup {<<0, {a}>> : a \in OverrideMilliAmps \cup {500000}}),
     sup \in Supplies, pf \in {800, 900, 1000}, c \in BOOLEAN}

SelectInRaceway ==
  /\ op = "none"
  /\ TablesAndSessionUnchanged
  /\ \E l \in RacewayLoads, length \in LengthSamples, conduit \in ConduitTypes :
       /\ op' = "select_conductor_and_breaker"
       /\ arg' = [load |-> l, params |-> DropParams(length, conduit)]
       /\ ret' = select_conductor_and_breaker(l, DropParams(length, conduit))

NextDrop == CalculateVoltageDrop \/ SelectInRaceway

SpecDrop == Init /\ [][NextDrop]_vars

(***************************************************************************)
(* Calls of the feeder and grounding functions                             *)
(***************************************************************************)

\* A feeder load of NECLogic given by its power.
PowerLoad(w, v, ph, pf, c, m, q) ==
  [power_watts |-> w, override_amps |-> {}, voltage |-> v, phases |-> ph,
   power_factor |-> pf, is_continuous |-> c, is_motor |-> m, quantity |-> q]

\* A non-motor, non-continuous feeder load given by its current (mA).
CurrentLoad(ma, q) ==
  [power_watts |-> 0, override_amps |-> {ma}, voltage |-> 480, phases |-> 3,
   power_factor |-> 900, is_continuous |-> FALSE, is_motor |-> FALSE,
   quantity |-> q]

\* The loads feeders are built from: the presses and machines of
\* test_factory.py, the motor and heater of test_calculations.py, a large
\* intermittent load, a load too large for any cable, and one with no voltage.
LogicFeederPool ==
  {PowerLoad(80000, 480, 3, 900, FALSE, TRUE, 1),
   PowerLoad(10000, 480, 3, 900, FALSE, TRUE, 20),
   PowerLoad(200000, 480, 3, 900, FALSE, TRUE, 1),
   PowerLoad(10000, 400, 3, 900, FALSE, TRUE, 1),
   PowerLoad(10000, 400, 3, 900, TRUE, FALSE, 1),
   PowerLoad(50000, 220, 1, 900, FALSE, FALSE, 2),
   CurrentLoad(320000, 20),
   PowerLoad(5000, 0, 1, 900, FALSE, FALSE, 1)}

\* Feeders have 1 .. MaxFeederLoads lines.
MaxFeederLoads == 3

\* Single loads with a current of 5 A times k, k in 0 .. MaxFeederAmpSteps,
\* once and ten times: totals on both sides of every ceiling.
MaxFeederAmpSteps == 130
FeederAmps ==
  {5 * k * q * AmpUnits : k \in 0 .. MaxFeederAmpSteps, q \in {1, 10}}

LogicFeederLists ==
  UNION {[1 .. n -> LogicFeederPool] : n \in 1 .. MaxFeederLoads}
  \cup {<<CurrentLoad(5000 * k, q)>> : k \in 0 .. MaxFeederAmpSteps, q \in {1, 10}}

\* Demand factors in hundredths: 0, 0.5, 0.7, 1.0 and 1.5.
DemandFactors == {0, 50, 70, 100, 150}

CalculateMainFeeder ==
  /\ op = "none"
  /\ TablesAndSessionUnchanged
  /\ \E loads \in LogicFeederLists, d \in DemandFactors :
       /\ op' = "calculate_main_feeder"
       /\ arg' = [loads |-> loads, user_demand_factor |-> d]
       /\ ret' = calculate_main_feeder(loads, d)

\* A components.Load of the feeder of NECCalculator.
FeederLoad(w, v, ph, pf, c, m) ==
  [power_watts |-> w, voltage |-> v, phases |-> ph, power_factor |-> pf,
   is_continuous |-> c, is_motor |-> m]

FeederPool ==
  {FeederLoad(80000, 480, 3, 900, FALSE, TRUE),
   FeederLoad(10000, 480, 3, 900, FALSE, TRUE),
   FeederLoad(200000, 480, 3, 900, FALSE, TRUE),
   FeederLoad(10000, 400, 3, 900, FALSE, TRUE),
   FeederLoad(10000, 400, 3, 900, TRUE, FALSE),
   FeederLoad(50000, 220, 1, 900, FALSE, FALSE),
   FeederLoad(400000, 120, 1, 800, FALSE, FALSE),
   FeederLoad(5000, 0, 1, 900, FALSE, FALSE)}

FeederLists == UNION {[1 .. n -> FeederPool] : n \in 1 .. MaxFeederLoads}

CalculateFeederConductors ==
  /\ op = "none"
  /\ TablesAndSessionUnchanged
  /\ \E loads \in FeederLists, d \in DemandFactors :
       /\ op' = "calculate_feeder_conductors"
       /\ arg' = [loads |-> loads, user_demand_factor |-> d]
       /\ ret' = calculate_feeder_conductors(loads, d)

SelectCableParallelLogic ==
  /\ op = "none"
  /\ TablesAndSessionUnchanged
  /\ \E amps \in FeederAmps :
       /\ op' = "select_cable_parallel_logic"
       /\ arg' = [amps |-> amps]
       /\ ret' = select_cable_parallel_logic(amps)

NextFeeder ==
  CalculateMainFeeder \/ CalculateFeederConductors \/ SelectCableParallelLogic

SpecFeeder == Init /\ [][NextFeeder]_vars

\* Breaker ratings tried for the grounding conductor: 0 .. MaxGroundRating.
MaxGroundRating == 6100

CalculateGroundingConductor ==
  /\ op = "none"
  /\ TablesAndSessionUnchanged
  /\ \E rating \in 0 .. MaxGroundRating :
       /\ op' = "calculate_grounding_conductor"
       /\ arg' = [rating |-> rating]
       /\ ret' = calculate_grounding_conductor(rating)

SpecGround == Init /\ [][CalculateGroundingConductor]_vars

(***************************************************************************)
(* Calls of calculate_circuit, calculate_main_protection and the IEC       *)
(* feeder                                                                  *)
(***************************************************************************)

\* The loads circuits are computed for: those of the breaker selection and
\* the 10 kW, 400 V, three-phase load of test_calculations.py.
CircuitLoads ==
  BreakerLoads
  \cup [power_watts : {10000}, voltage : {400}, phases : {3},
        power_factor : {900}, is_continuous : BOOLEAN, is_motor : BOOLEAN]

IecCalculateCircuit ==
  /\ op = "none"
  /\ TablesAndSessionUnchanged
  /\ \E l \in CircuitLoads :
       /\ op' = "IEC_calculate_circuit"
       /\ arg' = [load |-> l]
       /\ ret' = IEC_calculate_circuit(l)

NecCalculateCircuit ==
  /\ op = "none"
  /\ TablesAndSessionUnchanged
  /\ \E l \in CircuitLoads :
       /\ op' = "NEC_calculate_circuit"
       /\ arg' = [load |-> l]
       /\ ret' = NEC_calculate_circuit(l)

NextCircuit == IecCalculateCircuit \/ NecCalculateCircuit

SpecCircuit == Init /\ [][NextCircuit]_vars

\* Feeder cable ampacities tried for the main protection: every half
\* ampere from 0 to MaxProtectionHalfAmps / 2.
MaxProtectionHalfAmps == 2600
HalfAmpUnits == AmpUnits \div 2

CalculateMainProtection ==
  /\ op = "none"
  /\ TablesAndSessionUnchanged
  /\ \E k \in 0 .. MaxProtectionHalfAmps :
       /\ op' = "calculate_main_protection"
       /\ arg' = [ampacity |-> k * HalfAmpUnits]
       /\ ret' = calculate_main_protection(k * HalfAmpUnits)

SpecProtection == Init /\ [][CalculateMainProtection]_vars

\* The loads IEC feeders are built from: the 10 kW load of
\* test_calculations.py, a 50 kW load, a load drawing no current and a load
\* with no voltage.
IecFeederPool ==
  {FeederLoad(10000, 400, 3, 900, FALSE, FALSE),
   FeederLoad(50000, 400, 3, 900, FALSE, TRUE),
   FeederLoad(0, 230, 1, 1000, FALSE, FALSE),
   FeederLoad(5000, 0, 1, 900, FALSE, FALSE)}

\* IEC feeders have 0 .. MaxIecLoads circuits; the diversity factor steps
\* at 2, 4 and 6 circuits.
MaxIecLoads == 6
IecDemandFactors == {70, 100}

\* A feeder computed for a first list of loads.
IecCalculateFeederConductors ==
  /\ op = "none"
  /\ TablesAndSessionUnchanged
  /\ \E l \in IecFeederPool \cup {<<>>}, d \in IecDemandFactors :
       LET loads == IF l = <<>> THEN <<>> ELSE <<l>> IN
         /\ op' = "IEC_calculate_feeder_conductors"
         /\ arg' = [loads |-> loads, user_demand_factor |-> d]
         /\ ret' = IEC_calculate_feeder_conductors(loads, d)

\* The feeder computed again after one more load was appended to the list.
IecAppendLoad ==
  /\ op = "IEC_calculate_feeder_conductors"
  /\ TablesAndSessionUnchanged
  /\ Len(arg.loads) < MaxIecLoads
  /\ \E l \in IecFeederPool :
       LET loads == Append(arg.loads, l) IN
         /\ op' = op
         /\ arg' = [arg EXCEPT !.loads = loads]
         /\ ret' = IEC_calculate_feeder_conductors(loads, arg.user_demand_factor)

NextIecFeeder == IecCalculateFeederConductors \/ IecAppendLoad

SpecIecFeeder == Init /\ [][NextIecFeeder]_vars

(***************************************************************************)
(* Sessions: several calls, one after another or overlapping               *)
(***************************************************************************)

\* A session makes up to MaxSessionCalls calls.  Every object a call
\* creates is kept in heap, [class, fields]; its place there is its
\* identity.  A completed call is recorded in calls as [op, arg, obj], obj
\* being the object it returned.
MaxSessionCalls == 3

\* The inputs of the sessions: the continuous heater of test_nec_v2.py and
\* a 320 A load; the factory of test_factory.py without and with its
\* second press; the 10 kW load of test_calculations.py; feeder totals for
\* a single run (300 A), for two and for three sets of 300 kcmil (570 A,
\* 850 A) and beyond six sets (3000 A).
SessionLoads ==
  {[power_watts |-> 5000, override_amps |-> {}, voltage |-> 220, phases |-> 1,
    power_factor |-> 900, is_continuous |-> TRUE, is_motor |-> FALSE],
   [power_watts |-> 0, override_amps |-> {320000}, voltage |-> 480, phases |-> 3,
    power_factor |-> 900, is_continuous |-> FALSE, is_motor |-> FALSE]}
SessionFeeders ==
  {<<PowerLoad(80000, 480, 3, 900, FALSE, TRUE, 1),
     PowerLoad(10000, 480, 3, 900, FALSE, TRUE, 20)>>,
   <<PowerLoad(80000, 480, 3, 900, FALSE, TRUE, 1),
     PowerLoad(10000, 480, 3, 900, FALSE, TRUE, 20),
     PowerLoad(200000, 480, 3, 900, FALSE, TRUE, 1)>>}
SessionCircuitLoads == {FeederLoad(10000, 400, 3, 900, FALSE, FALSE)}
SessionAmps == {300 * AmpUnits, 570 * AmpUnits, 850 * AmpUnits, 3000 * AmpUnits}

\* A session is under way or may start, and has room for one more call.
InSession == op = "none" \/ calls # <<>> \/ \E c \in Callers : frames[c].busy
SessionRoom ==
  /\ InSession
  /\ Len(calls) + Cardinality({c \in Callers : frames[c].busy}) < MaxSessionCalls

\* Cable objects kept one per size and handed out again.
NewCable_OnePerSize(h, size_awg) ==
  LET same == {i \in 1 .. Len(h) :
                 h[i].class = "Cable" /\ h[i].fields.size_awg = size_awg}
  IN IF same # {} THEN CHOOSE i \in same : TRUE ELSE Len(h) + 1

\* Cable(...) (nec.py 170, 178, 241, 242) constructs a new object: the
\* place in the heap of the Cable a call creates.
NewCable(h, size_awg) == Len(h) + 1

\* The heap with the object at place obj set to value.
Store(h, obj, value) ==
  IF obj = Len(h) + 1 THEN Append(h, value) ELSE [h EXCEPT ![obj] = value]

\* A call that runs to its return without another call in between: it
\* creates its result object and returns it.
CallAndReturn(name, a, class, value) ==
  /\ op' = name
  /\ arg' = a
  /\ ret' = value
  /\ heap' = Append(heap, [class |-> class, fields |-> value])
  /\ calls' = Append(calls, [op |-> name, arg |-> a, obj |-> Len(heap) + 1])
  /\ UNCHANGED <<tables, frames>>

SessionSelect ==
  /\ SessionRoom
  /\ \E l \in SessionLoads, p \in ReferenceInstallations :
       CallAndReturn("select_conductor_and_breaker", [load |-> l, params |-> p],
                     "CableResult", select_conductor_and_breaker(l, p))

SessionMainFeeder ==
  /\ SessionRoom
  /\ \E loads \in SessionFeeders :
       CallAndReturn("calculate_main_feeder",
                     [loads |-> loads, user_demand_factor |-> 100],
                     "dict", calculate_main_feeder(loads, 100))

SessionCalculateCircuit ==
  /\ SessionRoom
  /\ \E l \in SessionCircuitLoads :
       \/ CallAndReturn("NEC_calculate_circuit", [load |-> l], "tuple",
                        NEC_calculate_circuit(l))
       \/ CallAndReturn("IEC_calculate_circuit", [load |-> l], "tuple",
                        IEC_calculate_circuit(l))

\* _select_cable_parallel_logic on a total that takes the single-run
\* return (nec.py 143-144) or the fallback (nec.py 178): the Cable is
\* constructed and returned.
SessionCableDirect ==
  /\ SessionRoom
  /\ \E amps \in SessionAmps :
       LET sel == select_cable_parallel_logic(amps)
           obj == NewCable(heap, sel.cable.size_awg)
       IN /\ SingleRunCeiling(amps) \/ SetsLoop(2, amps)[1] = 0
          /\ op' = "select_cable_parallel_logic"
          /\ arg' = [amps |-> amps]
          /\ ret' = sel
          /\ heap' = Store(heap, obj, [class |-> "Cable", fields |-> sel.cable])
          /\ calls' = Append(calls, [op |-> "select_cable_parallel_logic",
                                     arg |-> [amps |-> amps], obj |-> obj])
          /\ UNCHANGED <<tables, frames>>

\* _select_cable_parallel_logic up to line 170: a viable parallel
\* configuration is found and cable_obj is constructed with the ampacity
\* of one set.
SessionParallelBegin ==
  /\ SessionRoom
  /\ \E c \in Callers, amps \in SessionAmps :
       LET found == SetsLoop(2, amps)
           best_fit_cable == CABLE_AMPACITY[found[2]][1]
           best_fit_ampacity == CABLE_AMPACITY[found[2]][2] * AmpUnits
           obj == NewCable(heap, best_fit_cable)
       IN /\ ~frames[c].busy
          /\ ~SingleRunCeiling(amps)
          /\ found[1] # 0
          /\ heap' = Store(heap, obj,
                           [class |-> "Cable",
                            fields |-> [size_awg |-> best_fit_cable,
                                        ampacity |-> best_fit_ampacity,
                                        insulation |-> "THHN"]])
          /\ frames' = [frames EXCEPT ![c] =
                          [busy |-> TRUE, amps |-> amps, obj |-> obj,
                           num_sets |-> found[1],
                           best_fit_cable |-> best_fit_cable,
                           best_fit_ampacity |-> best_fit_ampacity]]
          /\ UNCHANGED <<op, arg, ret, tables, calls>>

\* Lines 172-173: cable_obj.ampacity = best_fit_ampacity * num_sets, and
\* the object is returned as it then is.
SessionParallelEnd ==
  \E c \in Callers :
    LET f == frames[c]
        a == [amps |-> f.amps]
        h == [heap EXCEPT ![f.obj].fields.ampacity = f.best_fit_ampacity * f.num_sets]
    IN /\ f.busy
       /\ heap' = h
       /\ op' = "select_cable_parallel_logic"
       /\ arg' = a
       /\ ret' = [cable |-> h[f.obj].fields,
                  ref |-> <<"NEC 310.10(H) (", ToString(f.num_sets), "x ",
                            f.best_fit_cable, " AWG/kcmil)">>,
                  num_sets |-> f.num_sets]
       /\ calls' = Append(calls, [op |-> "select_cable_parallel_logic",
                                  arg |-> a, obj |-> f.obj])
       /\ frames' = [frames EXCEPT ![c] = IdleFrame]
       /\ UNCHANGED tables

NextSession ==
  \/ SessionSelect
  \/ SessionMainFeeder
  \/ SessionCalculateCircuit
  \/ SessionCableDirect
  \/ SessionParallelBegin
  \/ SessionParallelEnd

SpecSession == Init /\ [][NextSession]_vars

Next ==
  \/ GetTempCorrection
  \/ GetGroupingFactor
  \/ CalculateDesignCurrent
  \/ SelectConductorAndBreaker
  \/ SelectAtHigherAmbient
  \/ SelectAtHigherCount
  \/ SelectAtReference
  \/ SelectBreaker
  \/ CalculateMainFeeder
  \/ CalculateFeederConductors
  \/ SelectCableParallelLogic
  \/ CalculateGroundingConductor
  \/ CalculateVoltageDrop
  \/ SelectInRaceway
  \/ IecCalculateCircuit
  \/ NecCalculateCircuit
  \/ CalculateMainProtection
  \/ IecCalculateFeederConductors
  \/ IecAppendLoad
  \/ SessionSelect
  \/ SessionMainFeeder
  \/ SessionCalculateCircuit
  \/ SessionCableDirect
  \/ SessionParallelBegin
  \/ SessionParallelEnd

Spec == Init /\ [][Next]_vars

(***************************************************************************)
(* Claims about the table functions                                        *)
(***************************************************************************)

\* The highest tabulated ambient temperature, in tenths of a degree.
TableCeilingTenths == TEMP_CORRECTION_FACTORS[Len(TEMP_CORRECTION_FACTORS)][2] * 10

\* temp_c lies inside some tabulated band (stated without the band loop).
InSomeBand(temp_c) ==
  \E i \in 1 .. Len(TEMP_CORRECTION_FACTORS) :
    /\ TEMP_CORRECTION_FACTORS[i][1] * 10 <= temp_c
    /\ temp_c <= TEMP_CORRECTION_FACTORS[i][2] * 10

\* The band immediately below temp_c: the one with the greatest upper edge
\* that is below temp_c (0 when there is none).
BandBelow(temp_c) ==
  LET below == {i \in 1 .. Len(TEMP_CORRECTION_FACTORS) :
                  TEMP_CORRECTION_FACTORS[i][2] * 10 < temp_c}
  IN IF below = {} THEN 0
     ELSE CHOOSE i \in below :
            \A j \in below : TEMP_CORRECTION_FACTORS[j][2] <= TEMP_CORRECTION_FACTORS[i][2]

\* C5: for every ambient temperature between 0 C and 70 C that lies inside
\* no tabulated band, get_temp_correction returns a factor that is not
\* larger than the factor of the band immediately below that temperature.
C5_GapNotOptimistic ==
  (/\ op = "get_temp_correction"
   /\ 0 <= arg.temp_c /\ arg.temp_c <= TableCeilingTenths
   /\ ~InSomeBand(arg.temp_c))
  => ret.factor <= RatingFactor(TEMP_CORRECTION_FACTORS[BandBelow(arg.temp_c)],
                                arg.insulation_rating)

\* The step function of C6, written out.
GroupingStep(count) ==
  IF count <= 3 THEN 100
  ELSE IF count <= 6 THEN 80
  ELSE IF count <= 9 THEN 70
  ELSE IF count <= 20 THEN 50
  ELSE IF count <= 30 THEN 45
  ELSE IF count <= 40 THEN 40
  ELSE 35

\* C6: get_grouping_factor is the step function <=3 -> 1.00, 4-6 -> 0.80,
\* 7-9 -> 0.70, 10-20 -> 0.50, 21-30 -> 0.45, 31-40 -> 0.40, >40 -> 0.35
\* for every conductor count, and no smaller count gets a smaller factor.
C6_GroupingStepFunction ==
  op = "get_grouping_factor"
  => /\ ret.factor = GroupingStep(arg.count)
     /\ \A m \in 0 .. arg.count : get_grouping_factor(m) >= ret.factor

\* C6 witness: a count above every table limit got the fallback factor,
C6_Witness ==
  /\ op = "get_grouping_factor"
  /\ arg.count > 100
  /\ ret.factor = 35

(***************************************************************************)
(* Claims about NECLogic                                                   *)
(***************************************************************************)

Abs(x) == IF x < 0 THEN 0 - x ELSE x

\* P recovered from a base current in current units:
\* amperes * volts * pf (single phase), in watts.
BackToWatts(amps, voltage, power_factor) ==
  MulDiv(MulDiv(amps \div MilliAmpUnits, voltage, 1000), power_factor, 1000)

\* The rounding allowed between a base current and the power it came from.
WattsTolerance(load) == 2 + (load.voltage * 4) \div 1000

\* C7: calculate_design_current: the base current is the override current
\* when one is given, otherwise P/(V*pf) for one phase and
\* P/(sqrt(3)*V*pf) for three phases; the result is base x 1.25 exactly
\* when the load is continuous-duty and base otherwise, and the motor flag
\* alone never changes the result.
C7_DesignCurrent ==
  (op = "calculate_design_current" /\ ret.exc = "none")
  => LET load == arg.load
         base == calculate_design_current(
                   [load EXCEPT !.is_continuous = FALSE, !.is_motor = FALSE]).amps
         flipped == calculate_design_current([load EXCEPT !.is_motor = ~@])
     IN /\ ret.amps * 4 = base * (IF load.is_continuous THEN 5 ELSE 4)
        /\ flipped = ret
        /\ load.override_amps # {}
             => \A a \in load.override_amps : base = a * MilliAmpUnits
        /\ (load.override_amps = {} /\ load.phases = 1)
             => Abs(BackToWatts(base, load.voltage, load.power_factor)
                    - load.power_watts) <= WattsTolerance(load)
        /\ (load.override_amps = {} /\ load.phases = 3)
             => Abs(BackToWatts(MulDiv(base, Sqrt3E4, 10000), load.voltage,
                                load.power_factor)
                    - load.power_watts) <= WattsTolerance(load)

\* C7 witness: the continuous 5000 W, 220 V, pf 0.9 single-phase motor load
\* got 31.56 .. 31.57 A, 1.25 times its 25.25 A.
C7_Witness ==
  /\ op = "calculate_design_current"
  /\ arg.load.override_amps = {} /\ arg.load.power_watts = 5000
  /\ arg.load.voltage = 220 /\ arg.load.phases = 1
  /\ arg.load.power_factor = 900
  /\ arg.load.is_continuous /\ arg.load.is_motor
  /\ ret.exc = "none"
  /\ 3156 * (AmpUnits \div 100) <= ret.amps
  /\ ret.amps <= 3157 * (AmpUnits \div 100)

\* The checks of the size search, stated for one size of the list.
\* i_req and the two factors are what the code computes for the call.
ReqOf(load) == calculate_design_current(load).amps

PassTerminal(size, load) == CopperAmps(size, 75) * AmpUnits >= ReqOf(load)

\* derated ampacity >= i_req with the 1.25 divided back out
PassDerated(size, load, params) ==
  LET derated == CopperAmps(size, params.insulation_rating)
                   * get_temp_correction(params.ambient_temp_c, params.insulation_rating)
                   * get_grouping_factor(params.raceway_count)
                   * (AmpUnits \div 10000)
  IN IF load.is_continuous THEN derated * 5 >= ReqOf(load) * 4
     ELSE derated >= ReqOf(load)

PassDrop(size, load, params) ==
  LET i_actual == IF load.is_continuous THEN (ReqOf(load) * 4) \div 5 ELSE ReqOf(load)
      v == calculate_voltage_drop(i_actual, size, params, load.voltage,
                                  load.phases, load.power_factor)
  IN v.exc = "none" /\ v.vd <= 3 * 10000

PassAll(size, load, params) ==
  /\ PassTerminal(size, load)
  /\ PassDerated(size, load, params)
  /\ PassDrop(size, load, params)

IsRealSize(size) == \E i \in 1 .. Len(SELECT_SIZES) : SELECT_SIZES[i] = size

\* C1: whenever select_conductor_and_breaker returns a size other than
\* MAX_EXCEEDED, that size is in the ascending size list and passes all
\* three checks (75 C terminal ampacity >= i_req, derated ampacity >=
\* i_actual, voltage drop at i_actual <= 3.0 %), and every smaller size of
\* the list fails at least one of the three.
C1_FirstPassingSize ==
  (/\ op = "select_conductor_and_breaker"
   /\ ret.exc = "none"
   /\ ret.size # "MAX_EXCEEDED")
  => \E i \in 1 .. Len(SELECT_SIZES) :
       /\ SELECT_SIZES[i] = ret.size
       /\ PassAll(SELECT_SIZES[i], arg.load, arg.params)
       /\ \A j \in 1 .. i - 1 : ~PassAll(SELECT_SIZES[j], arg.load, arg.params)

\* C1 witness: a continuous load got a real size whose derated ampacity is
\* below i_req and passes only against i_actual, after a smaller size had
\* passed the terminal check and failed the derating check.
C1_Witness ==
  /\ op = "select_conductor_and_breaker"
  /\ ret.exc = "none"
  /\ IsRealSize(ret.size)
  /\ arg.load.is_continuous
  /\ PassDerated(ret.size, arg.load, arg.params)
  /\ ~PassDerated(ret.size, [arg.load EXCEPT !.is_continuous = FALSE,
                                             !.override_amps = {(ReqOf(arg.load) \div MilliAmpUnits)}],
                  arg.params)
  /\ \E i \in 1 .. Len(SELECT_SIZES) :
       /\ SELECT_SIZES[i] = ret.size
       /\ \E j \in 1 .. i - 1 :
            /\ PassTerminal(SELECT_SIZES[j], arg.load)
            /\ ~PassDerated(SELECT_SIZES[j], arg.load, arg.params)

\* A load with positive voltage and 0 < pf <= 1.
WellFormed(load) ==
  load.voltage > 0 /\ load.power_factor > 0 /\ load.power_factor <= 1000

NoSizePasses(load, params) ==
  \A i \in 1 .. Len(SELECT_SIZES) : ~PassAll(SELECT_SIZES[i], load, params)

\* C2: for every load with positive voltage and 0 < pf <= 1 and every
\* installation, if no size in the list passes all three checks,
\* select_conductor_and_breaker returns normally with size MAX_EXCEEDED,
\* ampacity 0 and voltage drop 0: no exception, no real size.
C2_ExceededSentinel ==
  (/\ op = "select_conductor_and_breaker"
   /\ WellFormed(arg.load)
   /\ NoSizePasses(arg.load, arg.params))
  => /\ ret.exc = "none"
     /\ ret.size = "MAX_EXCEEDED"
     /\ ~IsRealSize(ret.size)
     /\ ret.ampacity = 0
     /\ ret.voltage_drop_percent = 0

\* C2 witness: a load of at most 420 A that passes the terminal check on
\* some size got the sentinel, because derating or voltage drop rejected
\* every size.
C2_Witness ==
  /\ op = "select_conductor_and_breaker"
  /\ WellFormed(arg.load)
  /\ NoSizePasses(arg.load, arg.params)
  /\ ReqOf(arg.load) > 0
  /\ PassTerminal("600", arg.load)
  /\ get_temp_correction(arg.params.ambient_temp_c, arg.params.insulation_rating) > 0
  /\ ret.exc = "none"
  /\ ret.size = "MAX_EXCEEDED"

\* Place of a returned size in the ascending order, MAX_EXCEEDED last.
SizeRank(size) ==
  IF IsRealSize(size)
  THEN CHOOSE i \in 1 .. Len(SELECT_SIZES) : SELECT_SIZES[i] = size
  ELSE Len(SELECT_SIZES) + 1

\* C3: for a fixed load and otherwise identical installation, raising the
\* ambient temperature (over the whole input range, values below 0 C
\* included) or raising the conductor count never makes
\* select_conductor_and_breaker return a smaller size, MAX_EXCEEDED
\* counted as larger than every real size.
C3_MonotonicInDerating ==
  [][(/\ op = "select_conductor_and_breaker"
      /\ op' = "select_conductor_and_breaker"
      /\ ret.exc = "none" /\ ret'.exc = "none"
      /\ arg'.load = arg.load
      /\ arg'.params.ambient_temp_c >= arg.params.ambient_temp_c
      /\ arg'.params.raceway_count >= arg.params.raceway_count)
     => SizeRank(ret'.size) >= SizeRank(ret.size)]_vars

\* C4: get_temp_correction returns 0.0 for every ambient temperature
\* strictly above 70 C, integer or fractional, for every insulation
\* rating; a load with positive current at such a temperature therefore
\* gets MAX_EXCEEDED.
C4_ZeroAboveCeiling ==
  /\ (op = "get_temp_correction" /\ arg.temp_c > TableCeilingTenths)
       => ret.factor = 0
  /\ (/\ op = "select_conductor_and_breaker"
      /\ ret.exc = "none"
      /\ arg.params.ambient_temp_c > TableCeilingTenths
      /\ ReqOf(arg.load) > 0)
       => (ret.f_temp = 0 /\ ret.size = "MAX_EXCEEDED")

(***************************************************************************)
(* Claims about the breaker rating                                         *)
(***************************************************************************)

\* The standard ratings (both lists hold the same ones) as a set.
StandardRatings == {BREAKER_RATINGS[i] : i \in 1 .. Len(BREAKER_RATINGS)}

RatingsAtLeast(x) == {r \in StandardRatings : r * AmpUnits >= x}
RatingsAtMost(x) == {r \in StandardRatings : r * AmpUnits <= x}
Smallest(S) == CHOOSE r \in S : \A q \in S : r <= q
Largest(S) == CHOOSE r \in S : \A q \in S : q <= r

\* i_req of a components.Load: base current, x 1.25 when continuous.
RequiredOf(load) ==
  IF load.is_continuous THEN (current_amps(load).amps \div 4) * 5
  ELSE current_amps(load).amps

\* C8: for every non-motor load whose required current i_req (base current,
\* x 1.25 when continuous) is at most 1200 A, the breaker chosen is the
\* smallest standard rating >= i_req, in NECCalculator.select_breaker and in
\* the breaker_rating of NECLogic.select_conductor_and_breaker alike.
C8_SmallestRatingAtLeastReq ==
  /\ (/\ op = "select_breaker"
      /\ ret.exc = "none"
      /\ ~arg.load.is_motor
      /\ RequiredOf(arg.load) <= 1200 * AmpUnits)
       => ret.rated_current = Smallest(RatingsAtLeast(RequiredOf(arg.load)))
  /\ (/\ op = "select_conductor_and_breaker"
      /\ ret.exc = "none"
      /\ ~arg.load.is_motor
      /\ ReqOf(arg.load) <= 1200 * AmpUnits)
       => ret.breaker_rating = Smallest(RatingsAtLeast(ReqOf(arg.load)))

\* C8 witness: the continuous 5 kW, 220 V, single-phase, pf 0.9 heater got a
\* 35 A breaker from NECCalculator.select_breaker.
C8_Witness ==
  /\ op = "select_breaker"
  /\ arg.load = [power_watts |-> 5000, voltage |-> 220, phases |-> 1,
                 power_factor |-> 900, is_continuous |-> TRUE,
                 is_motor |-> FALSE]
  /\ ret.exc = "none"
  /\ ret.rated_current = 35

\* 150 % and 250 % of the base current of a components.Load.
MotorFloor(load) == (current_amps(load).amps \div 2) * 3
MotorCeiling(load) == (current_amps(load).amps \div 2) * 5

\* C9: select_breaker for a motor load with base current ib picks the
\* smallest standard rating >= 1.5*ib and, if that exceeds 2.5*ib, the
\* largest standard rating <= 2.5*ib instead (when there is one); whenever
\* some standard rating lies in [1.5*ib, 2.5*ib] the rating returned lies in
\* that interval.
C9_MotorBreaker ==
  (/\ op = "select_breaker"
   /\ ret.exc = "none"
   /\ arg.load.is_motor)
  => LET lo == MotorFloor(arg.load)
         hi == MotorCeiling(arg.load)
         above == RatingsAtLeast(lo)
         below == RatingsAtMost(hi)
     IN /\ (above # {} /\ Smallest(above) * AmpUnits <= hi)
             => ret.rated_current = Smallest(above)
        /\ (above # {} /\ Smallest(above) * AmpUnits > hi /\ below # {})
             => ret.rated_current = Largest(below)
        /\ (above \cap below # {})
             => ret.rated_current \in above \cap below

\* C9 witness: the 50 kW, 480 V, three-phase, pf 0.9 motor (66.8 A) got a
\* rating inside [100.2 A, 167.0 A].
C9_Witness ==
  /\ op = "select_breaker"
  /\ arg.load = [power_watts |-> 50000, voltage |-> 480, phases |-> 3,
                 power_factor |-> 900, is_continuous |-> FALSE,
                 is_motor |-> TRUE]
  /\ ret.exc = "none"
  /\ 1002 * (AmpUnits \div 10) <= ret.rated_current * AmpUnits
  /\ ret.rated_current * AmpUnits <= 1670 * (AmpUnits \div 10)
  /\ ret.rated_current = 110

\* The rationale says the rating was held at the 250 % limit.
SaysCapped(ref) == \E i \in 1 .. Len(ref) : ref[i] = " [CAPPED at 250%]"

\* C10: select_breaker for a motor whose 250 % ceiling is below every
\* standard rating (2.5*ib < 15 A) returns the smallest rating >= 1.5*ib
\* regardless, and the rationale flags that the rating exceeds the 250 %
\* guidance: it does not describe the rating as held within the limit.
C10_ExceedingIsFlagged ==
  (/\ op = "select_breaker"
   /\ ret.exc = "none"
   /\ arg.load.is_motor
   /\ RatingsAtMost(MotorCeiling(arg.load)) = {})
  => /\ ret.rated_current = Smallest(RatingsAtLeast(MotorFloor(arg.load)))
     /\ ~SaysCapped(ret.ref)

\* 150 % and 250 % of the unmultiplied base current of a LoadInput.
BaseOf(load) == BaseMilliAmps(load) * MilliAmpUnits
LogicMotorFloor(load) == (BaseOf(load) \div 2) * 3
LogicMotorCeiling(load) == (BaseOf(load) \div 2) * 5

\* C11: for a motor load the breaker_rating returned by
\* NECLogic.select_conductor_and_breaker follows the motor rule: it is at
\* least 150 % of the motor's unmultiplied base current, and at most 250 %
\* of it when a standard rating fits in that window.
C11_LogicMotorBreaker ==
  (/\ op = "select_conductor_and_breaker"
   /\ ret.exc = "none"
   /\ arg.load.is_motor
   /\ RatingsAtLeast(LogicMotorFloor(arg.load)) # {})
  => /\ ret.breaker_rating * AmpUnits >= LogicMotorFloor(arg.load)
     /\ (RatingsAtLeast(LogicMotorFloor(arg.load))
           \cap RatingsAtMost(LogicMotorCeiling(arg.load)) # {})
          => ret.breaker_rating * AmpUnits <= LogicMotorCeiling(arg.load)

(***************************************************************************)
(* Claims about the feeder                                                 *)
(***************************************************************************)

RECURSIVE SeqSum(_)
SeqSum(q) == IF q = <<>> THEN 0 ELSE Head(q) + SeqSum(Tail(q))

SetMax(S) == CHOOSE x \in S : \A y \in S : y <= x

\* What one line adds to the feeder total, unit being its unit current and
\* quantity the number of units: motors at 100 %, continuous loads at
\* 125 %, the others at 100 %.
LineShare(l, unit, quantity) ==
  IF l.is_motor THEN unit * quantity
  ELSE IF l.is_continuous THEN (unit * quantity * 5) \div 4
  ELSE unit * quantity

\* The feeder total the rule gives for lines with the unit currents
\* units[i] and the quantities quantities[i].
RuleTotal(loads, units, quantities) ==
  LET motors == {i \in 1 .. Len(loads) : loads[i].is_motor}
  IN SeqSum([i \in 1 .. Len(loads) |-> LineShare(loads[i], units[i], quantities[i])])
     + (IF motors = {} THEN 0 ELSE SetMax({units[i] : i \in motors}) \div 4)

\* C12: the feeder total before the demand factor is the sum over motors of
\* unit current x quantity, plus 25 % of the largest per-unit motor current
\* (whatever that motor's quantity, and only when there is a motor), plus the
\* sum over non-motor loads of unit current x quantity x (1.25 if continuous,
\* else 1.0); in calculate_main_feeder and, every quantity being 1, in
\* calculate_feeder_conductors.
C12_FeederTotal ==
  /\ (/\ op = "calculate_main_feeder"
      /\ ret.exc = "none"
      /\ arg.user_demand_factor = 100)
       => ret.total_amps =
            RuleTotal(arg.loads,
                      [i \in 1 .. Len(arg.loads) |-> UnitAmps(arg.loads[i]).amps],
                      [i \in 1 .. Len(arg.loads) |-> arg.loads[i].quantity])
  /\ (/\ op = "calculate_feeder_conductors"
      /\ ret.exc = "none"
      /\ arg.user_demand_factor = 100)
       => ret.total_amps =
            RuleTotal(arg.loads,
                      [i \in 1 .. Len(arg.loads) |-> current_amps(arg.loads[i]).amps],
                      [i \in 1 .. Len(arg.loads) |-> 1])

\* C12 witness: one 80 kW press (106.9 A) and twenty 10 kW machines
\* (13.36 A each) gave a total of about 400.8 A.
C12_Witness ==
  /\ op = "calculate_main_feeder"
  /\ arg.loads = <<PowerLoad(80000, 480, 3, 900, FALSE, TRUE, 1),
                   PowerLoad(10000, 480, 3, 900, FALSE, TRUE, 20)>>
  /\ arg.user_demand_factor = 100
  /\ ret.exc = "none"
  /\ 400 * AmpUnits <= ret.total_amps
  /\ ret.total_amps <= 402 * AmpUnits

\* The result of the call of this state, made without a demand factor.
WithoutDemand ==
  IF op = "calculate_main_feeder" THEN calculate_main_feeder(arg.loads, 100)
  ELSE calculate_feeder_conductors(arg.loads, 100)

\* C13: in both feeder aggregations a demand factor d < 1.0 multiplies the
\* aggregated total by d, any d >= 1.0 leaves total, size and run count
\* exactly as with d = 1.0, and the total with a demand factor in [0, 1] is
\* never larger than the total without it.
C13_DemandFactor ==
  (/\ op \in {"calculate_main_feeder", "calculate_feeder_conductors"}
   /\ ret.exc = "none")
  => LET d == arg.user_demand_factor
         plain == WithoutDemand
     IN /\ d < 100 => ret.total_amps = MulDiv(plain.total_amps, d, 100)
        /\ d >= 100 => ret = plain
        /\ (0 <= d /\ d <= 100) => ret.total_amps <= plain.total_amps

\* C13 witness: the 400.8 A factory feeder with a demand factor of 0.7 came
\* to about 280.56 A on one run of 300 kcmil, less than without the factor.
C13_Witness ==
  /\ op = "calculate_main_feeder"
  /\ arg.loads = <<PowerLoad(80000, 480, 3, 900, FALSE, TRUE, 1),
                   PowerLoad(10000, 480, 3, 900, FALSE, TRUE, 20)>>
  /\ arg.user_demand_factor = 70
  /\ ret.exc = "none"
  /\ 280 * AmpUnits <= ret.total_amps
  /\ ret.total_amps <= 281 * AmpUnits
  /\ ret.total_amps < WithoutDemand.total_amps
  /\ ret.cable_size = "300" /\ ret.parallel_runs = 1

\* The smallest size of Table 310.16 whose 75 C ampacity covers amps, for
\* amps that some size covers.
Covering(amps) == {s \in CopperKeys : CopperAmps(s, 75) * AmpUnits >= amps}
SmallestCovering(amps) ==
  CHOOSE s \in Covering(amps) :
    \A t \in Covering(amps) : CopperAmps(s, 75) <= CopperAmps(t, 75)

\* The single-run ceiling: 420 A.
CeilingAmps == 420 * AmpUnits

\* C14: for every feeder total <= 420 A, NECCalculator (in
\* calculate_feeder_conductors and _select_cable_parallel_logic) and
\* NECLogic.calculate_main_feeder return one run of the smallest standard
\* size whose 75 C ampacity is >= the total.
C14_SingleRun ==
  /\ (/\ op = "calculate_feeder_conductors"
      /\ ret.exc = "none"
      /\ ret.total_amps <= CeilingAmps)
       => /\ ret.cable.size_awg = SmallestCovering(ret.total_amps)
          /\ ret.num_sets = 1
          /\ ret.cable.ampacity = CopperAmps(ret.cable.size_awg, 75) * AmpUnits
  /\ (op = "select_cable_parallel_logic" /\ arg.amps <= CeilingAmps)
       => /\ ret.cable.size_awg = SmallestCovering(arg.amps)
          /\ ret.num_sets = 1
  /\ (/\ op = "calculate_main_feeder"
      /\ ret.exc = "none"
      /\ ret.total_amps <= CeilingAmps)
       => /\ ret.cable_size = SmallestCovering(ret.total_amps)
          /\ ret.parallel_runs = 1

\* C14 witness: the 10 kW motor and the 10 kW heater at 400 V (40.08 A)
\* got one run of 8 AWG from calculate_feeder_conductors.
C14_Witness ==
  /\ op = "calculate_feeder_conductors"
  /\ arg.loads = <<FeederLoad(10000, 400, 3, 900, FALSE, TRUE),
                   FeederLoad(10000, 400, 3, 900, TRUE, FALSE)>>
  /\ arg.user_demand_factor = 100
  /\ ret.exc = "none"
  /\ 40 * AmpUnits <= ret.total_amps /\ ret.total_amps <= 41 * AmpUnits
  /\ ret.cable.size_awg = "8" /\ ret.num_sets = 1

\* The sizes each implementation permits for parallel runs, all 1/0 AWG or
\* larger: candidate_sizes of NECCalculator, sizes of calculate_main_feeder.
CalcParallelSizes ==
  {CABLE_AMPACITY[i][1] : i \in FirstCandidate .. Len(CABLE_AMPACITY)}
LogicParallelSizes ==
  {FEEDER_SIZES[i] : i \in 1 .. Len(FEEDER_SIZES)} \cap CopperKeys

\* The run counts of 2 .. max_runs for which some permitted size covers
\* amps / n, and the smallest permitted size that covers amps / n.
RunCounts(amps, permitted, max_runs) ==
  {n \in 2 .. max_runs :
     \E s \in permitted : CopperAmps(s, 75) * AmpUnits * n >= amps}
SmallestRunSize(amps, permitted, n) ==
  LET fit == {s \in permitted : CopperAmps(s, 75) * AmpUnits * n >= amps}
  IN CHOOSE s \in fit : \A t \in fit : CopperAmps(s, 75) <= CopperAmps(t, 75)

\* The feeder total, the size and the run count of the call of this state.
FeederTotalOf ==
  IF op = "select_cable_parallel_logic" THEN arg.amps ELSE ret.total_amps
FeederSizeOf ==
  IF op = "calculate_main_feeder" THEN ret.cable_size ELSE ret.cable.size_awg
FeederRunsOf ==
  IF op = "calculate_main_feeder" THEN ret.parallel_runs ELSE ret.num_sets
FeederCall ==
  /\ op \in {"calculate_main_feeder", "calculate_feeder_conductors",
             "select_cable_parallel_logic"}
  /\ op # "select_cable_parallel_logic" => ret.exc = "none"
FeederPermitted ==
  IF op = "calculate_main_feeder" THEN LogicParallelSizes ELSE CalcParallelSizes
FeederMaxRuns == IF op = "calculate_main_feeder" THEN 9 ELSE 6

\* The parallel-run rule for the call of this state, permitted being the
\* sizes allowed for parallel runs.
ParallelRule(permitted) ==
  (FeederCall /\ FeederTotalOf > CeilingAmps)
  => LET counts == RunCounts(FeederTotalOf, permitted, FeederMaxRuns)
     IN /\ counts # {}
          => LET n == CHOOSE k \in counts : \A j \in counts : k <= j
             IN /\ FeederRunsOf = n
                /\ FeederSizeOf = SmallestRunSize(FeederTotalOf, permitted, n)
                /\ CopperAmps(FeederSizeOf, 75) * AmpUnits * n >= FeederTotalOf
        /\ ~(FeederRunsOf = 1 /\ FeederSizeOf \in CopperKeys)

\* Every size of the implementation's ampacity table from 1/0 AWG up.
TabulatedParallelSizes ==
  IF op = "calculate_main_feeder"
  THEN {s \in CopperKeys : CopperAmps(s, 75) >= CopperAmps("1/0", 75)}
  ELSE CalcParallelSizes

\* C15 as stated: for every feeder total above 420 A that the search can
\* cover, the result has n >= 2 runs, n being the smallest run count for
\* which some size of 1/0 AWG or larger has ampacity >= total / n, and the
\* size is the smallest such size; no total above 420 A gets a single run
\* of a standard size.
C15_AnySizeFromOneAught == ParallelRule(TabulatedParallelSizes)

\* C15, amended: the same with the sizes each implementation lists for
\* parallel runs (candidate_sizes of NECCalculator; sizes of
\* calculate_main_feeder, which leaves out 700 and 900 kcmil) in place of
\* every size of 1/0 AWG or larger.
C15_ParallelRuns == ParallelRule(FeederPermitted)

\* C15 witness: the factory with the second press (about 707 A) got two
\* runs of 500 kcmil, each run covering half the total.
C15_Witness ==
  /\ op = "calculate_main_feeder"
  /\ arg.loads = <<PowerLoad(80000, 480, 3, 900, FALSE, TRUE, 1),
                   PowerLoad(10000, 480, 3, 900, FALSE, TRUE, 20),
                   PowerLoad(200000, 480, 3, 900, FALSE, TRUE, 1)>>
  /\ arg.user_demand_factor = 100
  /\ ret.exc = "none"
  /\ 700 * AmpUnits <= ret.total_amps /\ ret.total_amps <= 715 * AmpUnits
  /\ ret.parallel_runs = 2 /\ ret.cable_size = "500"
  /\ CopperAmps("500", 75) * AmpUnits * 2 >= ret.total_amps

\* No run count of the bounded search covers the total of this state.
Exhausted ==
  /\ FeederTotalOf > CeilingAmps
  /\ RunCounts(FeederTotalOf, FeederPermitted, FeederMaxRuns) = {}

\* The markers of the two implementations.
ExceedsMarkers == {"CUSTOM", "TBD"}

\* C16: when the feeder total is too large for every run count of the
\* bounded search (2..6 runs in NECCalculator, up to 9 in
\* calculate_main_feeder), the result is a marker that is no standard size
\* (CUSTOM on a BUSBAR with the reference "Exceeds Standard Cable Capacity";
\* TBD), returned in that case only; no standard size whose ampacity is below
\* the per-run current is returned.
C16_Exhaustion ==
  FeederCall
  => /\ Exhausted <=> FeederSizeOf \in ExceedsMarkers
     /\ Exhausted
          => /\ FeederSizeOf \notin CopperKeys
             /\ op = "calculate_main_feeder" => ret.cable_size = "TBD"
             /\ op # "calculate_main_feeder"
                  => /\ ret.cable.size_awg = "CUSTOM"
                     /\ ret.cable.insulation = "BUSBAR"
                     /\ ret.ref = <<"Exceeds Standard Cable Capacity">>
     /\ (FeederSizeOf \in CopperKeys /\ FeederRunsOf >= 1)
          => CopperAmps(FeederSizeOf, 75) * AmpUnits * FeederRunsOf >= FeederTotalOf

\* C16 witness: 6400 A, more than nine runs of the largest size carry, got
\* the marker from calculate_main_feeder.
C16_Witness ==
  /\ op = "calculate_main_feeder"
  /\ ret.exc = "none"
  /\ ret.total_amps = 6400 * AmpUnits
  /\ Exhausted
  /\ ret.cable_size = "TBD"

(***************************************************************************)
(* Claims about the grounding conductor                                    *)
(***************************************************************************)

\* The thresholds of Table 250.122 at or above a rating, and the place of
\* a size among the sizes of the table.
ThresholdsAtLeast(rating) ==
  {i \in 1 .. Len(GROUNDING_TABLE) : GROUNDING_TABLE[i][1] >= rating}
GroundingRank(size) ==
  CHOOSE i \in 1 .. Len(GROUNDING_TABLE) : GROUNDING_TABLE[i][2] = size

\* C17: for every breaker rating the grounding size is the one attached to
\* the smallest table threshold >= the rating, and the largest tabulated
\* size, 800, for a rating above every threshold (> 6000 A); the size does
\* not decrease when the rating goes up by one ampere.
C17_GroundingConductor ==
  op = "calculate_grounding_conductor"
  => LET at == ThresholdsAtLeast(arg.rating)
         size == ret.cable.size_awg
     IN /\ at # {}
          => size = GROUNDING_TABLE[CHOOSE i \in at :
                                      \A j \in at : GROUNDING_TABLE[i][1]
                                                      <= GROUNDING_TABLE[j][1]][2]
        /\ at = {} => size = "800"
        /\ arg.rating > 6000 => size = "800"
        /\ GroundingRank(size)
             <= GroundingRank(calculate_grounding_conductor(arg.rating + 1).cable.size_awg)

\* C17 witness: a 50 A breaker got a 10 AWG grounding conductor.
C17_Witness ==
  /\ op = "calculate_grounding_conductor"
  /\ arg.rating = 50
  /\ ret.cable.size_awg = "10"

(***************************************************************************)
(* Claims about the voltage drop                                           *)
(***************************************************************************)

\* The sizes with impedance data, and the place of 600 kcmil, the largest
\* of them, in the selection list.
Tabulated(size) == size \in DOMAIN TABLE_9_IMPEDANCE
LargestTabulatedRank == SizeRank("600")

\* C18: calculate_voltage_drop returns the sentinel 999.0 (never 0, never
\* a value <= 3 %) for any size absent from the impedance table, so
\* select_conductor_and_breaker never selects a size without impedance
\* data: no size above 600 kcmil is returned, and every load with i_req
\* above 420 A gets MAX_EXCEEDED.
C18_SentinelForUnknownSize ==
  /\ (op = "calculate_voltage_drop" /\ ~Tabulated(arg.size_awg))
       => /\ ret.exc = "none"
          /\ ret.vd = 999 * 10000
          /\ ret.vd > 3 * 10000
  /\ (op = "select_conductor_and_breaker" /\ ret.exc = "none")
       => /\ ret.size # "MAX_EXCEEDED"
            => (Tabulated(ret.size) /\ SizeRank(ret.size) <= LargestTabulatedRank)
          /\ ReqOf(arg.load) > 420 * AmpUnits => ret.size = "MAX_EXCEEDED"

\* C18 witness: a 500 A load, which 900 kcmil would carry in a short
\* raceway, got MAX_EXCEEDED.
C18_Witness ==
  /\ op = "select_conductor_and_breaker"
  /\ ret.exc = "none"
  /\ ReqOf(arg.load) = 500 * AmpUnits
  /\ arg.params.length_meters = 10
  /\ PassTerminal("900", arg.load)
  /\ PassDerated("900", arg.load, arg.params)
  /\ ret.size = "MAX_EXCEEDED"

\* The call of this state made again in another raceway.
DropIn(conduit) ==
  calculate_voltage_drop(arg.current, arg.size_awg,
                         [arg.params EXCEPT !.conduit_type = conduit],
                         arg.voltage, arg.phases, arg.pf)
SelectIn(conduit) ==
  select_conductor_and_breaker(arg.load,
                               [arg.params EXCEPT !.conduit_type = conduit])

\* C19: for every current, tabulated size, length, voltage, phase count
\* and power factor, calculate_voltage_drop with an aluminum raceway returns
\* exactly what it returns with a PVC raceway.
C19_AluminumAsPVC ==
  (/\ op = "calculate_voltage_drop"
   /\ arg.params.conduit_type = "Aluminum"
   /\ Tabulated(arg.size_awg))
  => ret = DropIn("PVC")

\* C19 witness: a drop computed in an aluminum raceway on a tabulated size,
\* different from the drop in a steel raceway.
C19_Witness ==
  /\ op = "calculate_voltage_drop"
  /\ arg.params.conduit_type = "Aluminum"
  /\ Tabulated(arg.size_awg)
  /\ ret.exc = "none" /\ ret.vd > 0
  /\ ret # DropIn("Steel")

\* C20: for the same tabulated size, positive current, positive length,
\* voltage, phase count and power factor below 1, the voltage drop in a
\* steel raceway is strictly greater than in a PVC raceway; and when
\* select_conductor_and_breaker picks the same size for both raceways, the
\* steel result reports the higher voltage drop.
C20_SteelAbovePVC ==
  /\ (/\ op = "calculate_voltage_drop"
      /\ arg.params.conduit_type = "Steel"
      /\ Tabulated(arg.size_awg)
      /\ arg.current > 0 /\ arg.params.length_meters > 0
      /\ arg.pf < 1000
      /\ ret.exc = "none")
       => ret.vd > DropIn("PVC").vd
  /\ (/\ op = "select_conductor_and_breaker"
      /\ arg.params.conduit_type = "Steel"
      /\ arg.load.power_factor < 1000
      /\ ret.exc = "none"
      /\ IsRealSize(ret.size)
      /\ SelectIn("PVC").size = ret.size)
       => ret.voltage_drop_percent > SelectIn("PVC").voltage_drop_percent

\* C20 witness: a selection in a steel raceway that picked the size the
\* PVC raceway gets, with a higher voltage drop.
C20_Witness ==
  /\ op = "select_conductor_and_breaker"
  /\ arg.params.conduit_type = "Steel"
  /\ arg.load.power_factor < 1000
  /\ ret.exc = "none"
  /\ IsRealSize(ret.size)
  /\ SelectIn("PVC").size = ret.size
  /\ ret.voltage_drop_percent > SelectIn("PVC").voltage_drop_percent

(***************************************************************************)
(* Claims about the reported ampacity and the breaker of NECLogic          *)
(***************************************************************************)

\* C21: for a continuous load with everything else equal, the usable
\* ampacity reported by select_conductor_and_breaker at an ambient
\* temperature above 30 C (e.g. 55 C) is never lower than the ampacity
\* reported at 30 C.
C21_AmpacityNotLowerWhenHotter ==
  [][(/\ op = "select_conductor_and_breaker"
      /\ op' = "select_conductor_and_breaker"
      /\ ret.exc = "none" /\ ret'.exc = "none"
      /\ arg.load.is_continuous
      /\ arg'.load = arg.load
      /\ arg.params.ambient_temp_c = 300
      /\ arg'.params.ambient_temp_c > 300
      /\ arg'.params = [arg.params EXCEPT
                          !.ambient_temp_c = arg'.params.ambient_temp_c])
     => ret'.ampacity >= ret.ampacity]_vars

(***************************************************************************)
(* Claims about calculate_circuit and calculate_main_protection            *)
(***************************************************************************)

\* Ib of the load of this state.
IbOf(load) == current_amps(load).amps

\* The standard IEC ratings at or above a current, and the tabulated IEC
\* cable ampacities (current units) at or above a rating.
IecRatingsAtLeast(ib) ==
  {IEC_BREAKER_RATINGS[i] : i \in {j \in 1 .. Len(IEC_BREAKER_RATINGS) :
                                     IEC_BREAKER_RATINGS[j] * AmpUnits >= ib}}
IecAmpacitiesAtLeast(rating) ==
  {IEC_CABLE_AMPACITY[i][2] * TenthAmpUnits :
     i \in {j \in 1 .. Len(IEC_CABLE_AMPACITY) :
              IEC_CABLE_AMPACITY[j][2] * TenthAmpUnits >= rating * AmpUnits}}

\* C22: IECCalculator.calculate_circuit: for every load with current Ib the
\* breaker returned is the smallest standard IEC rating In >= Ib and the
\* cable is the smallest tabulated size with ampacity Iz >= In, so that
\* Ib <= In <= Iz in every result.
C22_IecCircuit ==
  (op = "IEC_calculate_circuit" /\ ret.exc = "none")
  => /\ IecRatingsAtLeast(IbOf(arg.load)) # {}
     /\ ret.rated_current = Smallest(IecRatingsAtLeast(IbOf(arg.load)))
     /\ IecAmpacitiesAtLeast(ret.rated_current) # {}
     /\ ret.cable.ampacity = Smallest(IecAmpacitiesAtLeast(ret.rated_current))
     /\ IbOf(arg.load) <= ret.rated_current * AmpUnits
     /\ ret.rated_current * AmpUnits <= ret.cable.ampacity

\* The rating the main protection is claimed to have for a feeder cable
\* ampacity: the smallest standard rating at or above it from 15 A to
\* 800 A, the largest standard rating at or below it above 800 A.
ProtectionRule(ampacity) ==
  IF ampacity <= 800 * AmpUnits
  THEN Smallest(RatingsAtLeast(ampacity))
  ELSE Largest(RatingsAtMost(ampacity))

\* C25: NECCalculator.calculate_main_protection: for a feeder cable
\* ampacity between 15 A and 800 A it returns the smallest standard rating
\* >= the ampacity (the rating itself when the ampacity is a standard
\* rating); for an ampacity above 800 A it returns the largest standard
\* rating <= the ampacity and so never exceeds the cable ampacity.
C25_MainProtection ==
  (op = "calculate_main_protection" /\ arg.ampacity >= 15 * AmpUnits)
  => /\ ret.rated_current = ProtectionRule(arg.ampacity)
     /\ arg.ampacity \in {r * AmpUnits : r \in StandardRatings}
          => ret.rated_current * AmpUnits = arg.ampacity
     /\ arg.ampacity > 800 * AmpUnits
          => ret.rated_current * AmpUnits <= arg.ampacity

\* C25 witness: a 50 A cable got a 50 A breaker.
C25_Witness ==
  /\ op = "calculate_main_protection"
  /\ arg.ampacity = 50 * AmpUnits
  /\ ret.rated_current = 50

\* C26: NECCalculator.calculate_circuit (select_breaker, then
\* select_cable): for every non-motor load the cable returned has ampacity
\* >= the rating of the breaker returned, and for every motor or continuous
\* load the cable ampacity is >= 125 % of the load current.
C26_CableCoversBreaker ==
  (op = "NEC_calculate_circuit" /\ ret.exc = "none")
  => /\ ~arg.load.is_motor
          => ret.cable.ampacity >= ret.rated_current * AmpUnits
     /\ (arg.load.is_motor \/ arg.load.is_continuous)
          => ret.cable.ampacity * 4 >= IbOf(arg.load) * 5

(***************************************************************************)
(* Claims about the breaker of NECLogic                                    *)
(***************************************************************************)

\* C27: the breaker_rating returned by NECLogic.select_conductor_and_breaker
\* is never below the load's required current i_req, for every load,
\* including loads whose i_req is above the largest standard rating
\* (1200 A).
C27_BreakerCoversReq ==
  (op = "select_conductor_and_breaker" /\ ret.exc = "none")
  => ret.breaker_rating * AmpUnits >= ReqOf(arg.load)

\* C28: in every non-sentinel result of
\* NECLogic.select_conductor_and_breaker, breaker_rating does not exceed
\* the 75 C terminal ampacity of the selected conductor size.
C28_BreakerWithinTerminal ==
  (/\ op = "select_conductor_and_breaker"
   /\ ret.exc = "none"
   /\ IsRealSize(ret.size))
  => ret.breaker_rating <= CopperAmps(ret.size, 75)

(***************************************************************************)
(* Claims about the two feeder searches and the IEC feeder                 *)
(***************************************************************************)

\* What NECCalculator selects for the total of this calculate_main_feeder
\* call.
CalculatorChoice == select_cable_parallel_logic(ret.total_amps)

\* C29: given the same total design current, NECLogic.calculate_main_feeder
\* and NECCalculator.calculate_feeder_conductors return the same number of
\* parallel runs and the same conductor size, for every total that either
\* of them can cover.
C29_FeederSearchesAgree ==
  (/\ op = "calculate_main_feeder"
   /\ ret.exc = "none"
   /\ ret.cable_size # "TBD" \/ CalculatorChoice.cable.size_awg # "CUSTOM")
  => /\ ret.parallel_runs = CalculatorChoice.num_sets
     /\ ret.cable_size = CalculatorChoice.cable.size_awg

\* C30: IECCalculator.calculate_feeder_conductors: starting from any list
\* of loads and a fixed demand factor, appending one more load with
\* non-negative current never decreases the total design current returned.
C30_IecTotalNeverDecreases ==
  [][(/\ op = "IEC_calculate_feeder_conductors"
      /\ op' = "IEC_calculate_feeder_conductors"
      /\ ret.exc = "none" /\ ret'.exc = "none"
      /\ arg'.user_demand_factor = arg.user_demand_factor
      /\ Len(arg'.loads) = Len(arg.loads) + 1
      /\ SubSeq(arg'.loads, 1, Len(arg.loads)) = arg.loads
      /\ IbOf(arg'.loads[Len(arg'.loads)]) >= 0)
     => ret'.total_current_design >= ret.total_current_design]_vars

(***************************************************************************)
(* Claims about input validation                                           *)
(***************************************************************************)

\* The loads of this state: the one of a selection, the lines of a feeder.
LoadsOfCall ==
  IF op = "select_conductor_and_breaker" THEN {arg.load}
  ELSE {arg.loads[i] : i \in 1 .. Len(arg.loads)}

\* C24: a load with non-positive voltage or non-positive power factor is
\* rejected (here: by any exception) before the size search starts;
\* select_conductor_and_breaker and calculate_main_feeder never return a result computed from a negative or
\* undefined current (a real size with a negative voltage drop, a negative
\* feeder total).
C24_InvalidLoadRejected ==
  /\ (/\ op \in {"select_conductor_and_breaker", "calculate_main_feeder"}
      /\ \E l \in LoadsOfCall : l.voltage <= 0 \/ l.power_factor <= 0)
       => ret.exc # "none"
  /\ (op = "select_conductor_and_breaker" /\ ret.exc = "none")
       => (ReqOf(arg.load) >= 0 /\ ret.voltage_drop_percent >= 0)
  /\ (op = "calculate_main_feeder" /\ ret.exc = "none")
       => ret.total_amps >= 0

(***************************************************************************)
(* Claims about sessions of calls                                          *)
(***************************************************************************)

\* What a call of the function op returns for the arguments a when nothing
\* else runs.
ResultAlone(name, a) ==
  CASE name = "select_conductor_and_breaker" ->
         select_conductor_and_breaker(a.load, a.params)
    [] name = "calculate_main_feeder" ->
         calculate_main_feeder(a.loads, a.user_demand_factor)
    [] name = "NEC_calculate_circuit" -> NEC_calculate_circuit(a.load)
    [] name = "IEC_calculate_circuit" -> IEC_calculate_circuit(a.load)
    [] name = "select_cable_parallel_logic" ->
         select_cable_parallel_logic(a.amps).cable

\* The objects the calls in progress are building.
ObjectsInProgress == {frames[c].obj : c \in {d \in Callers : frames[d].busy}}

\* C23: across any sequence or interleaving of calls the lookup tables are
\* never modified; no result object is shared, neither between two
\* completed calls nor between a completed call and one in progress, nor
\* between two in progress; a result once returned never changes; and every
\* call's result is the one its own arguments give when nothing else runs,
\* so the same inputs give the same result whatever preceded or overlapped.
C23_Stateless ==
  /\ [](tables = TheTables)
  /\ [][tables' = tables]_vars
  /\ [](\A i, j \in 1 .. Len(calls) : i # j => calls[i].obj # calls[j].obj)
  /\ [](\A i \in 1 .. Len(calls) : calls[i].obj \notin ObjectsInProgress)
  /\ [](\A c, d \in Callers :
          (c # d /\ frames[c].busy /\ frames[d].busy)
            => frames[c].obj # frames[d].obj)
  /\ [][\A i \in 1 .. Len(calls) :
          heap'[calls[i].obj] = heap[calls[i].obj]]_vars
  /\ [](\A i \in 1 .. Len(calls) :
          heap[calls[i].obj].fields = ResultAlone(calls[i].op, calls[i].arg))
  /\ [](\A i, j \in 1 .. Len(calls) :
          (calls[i].op = calls[j].op /\ calls[i].arg = calls[j].arg)
            => heap[calls[i].obj].fields = heap[calls[j].obj].fields)

\* Two parallel configurations of one size with different numbers of sets
\* have been returned (2 x 300 kcmil and 3 x 300 kcmil), each with its own
\* total ampacity, while a further call on that size is between lines 170
\* and 172.
C23_Witness ==
  /\ Len(calls) = 2
  /\ calls[1].op = "select_cable_parallel_logic"
  /\ calls[2].op = "select_cable_parallel_logic"
  /\ heap[calls[1].obj].fields.size_awg = heap[calls[2].obj].fields.size_awg
  /\ heap[calls[1].obj].fields.ampacity # heap[calls[2].obj].fields.ampacity
  /\ \E c \in Callers :
       /\ frames[c].busy
       /\ frames[c].best_fit_cable = heap[calls[1].obj].fields.size_awg

====
